---- MODULE Spec2Model ----
(***************************************************************************)
(* Asset chaincode (chaincode/contract.go) over a versioned key-value      *)
(* ledger.  A Go string is a sequence of characters, one token per         *)
(* character; "NUL" is U+0000, "uFFFD" the replacement rune, "uMAX"        *)
(* U+10FFFF, "x01" the byte 0x01 and "xFF" a byte that is not valid       *)
(* UTF-8.  A []byte value is                                               *)
(* a record [kind, obj, raw]: kind "nil" (no value), "object" (a JSON      *)
(* object, obj its members in order), "null" (the JSON null) or "raw"      *)
(* (bytes that are not JSON, raw their characters).                        *)
(***************************************************************************)
EXTENDS Integers, Sequences, FiniteSets, TLC

VARIABLES ledger, last, pg, chain

vars == <<ledger, last, pg, chain>>

(***************************************************************************)
(* Strings                                                                 *)
(***************************************************************************)

\* The characters in ascending byte order of their UTF-8 encoding.
CharOrder ==
    <<"NUL", "x01", " ", "\"", ",", "1", "2", "3", "4", "5", "6", "7", ":",
      "A", "B", "D", "I", "J", "M", "S", "T", "V",
      "a", "b", "c", "d", "e", "g", "h", "i", "k", "l", "m", "n", "o", "p",
      "r", "s", "t", "u", "w", "x", "y", "z", "{", "}", "~",
      "uFFFD", "uMAX", "xFF">>

Ord == [c \in {CharOrder[i] : i \in DOMAIN CharOrder} |->
          CHOOSE i \in DOMAIN CharOrder : CharOrder[i] = c]

\* Go's s < t on strings: bytewise lexicographic order, decided at the
\* first position from i on where s and t differ or one of them ends.
RECURSIVE LessFrom(_, _, _)
LessFrom(s, t, i) ==
    IF i > Len(t) THEN FALSE
    ELSE IF i > Len(s) THEN TRUE
    ELSE IF s[i] = t[i] THEN LessFrom(s, t, i + 1)
    ELSE Ord[s[i]] < Ord[t[i]]

StrLess(s, t) == LessFrom(s, t, 1)

StrLeq(s, t) == s = t \/ StrLess(s, t)

Contains(s, c) == \E i \in DOMAIN s : s[i] = c

\* utf8.ValidString
ValidUTF8(s) == ~Contains(s, "xFF")

asset1 == <<"a", "s", "s", "e", "t", "1">>
asset2 == <<"a", "s", "s", "e", "t", "2">>
asset3 == <<"a", "s", "s", "e", "t", "3">>
asset4 == <<"a", "s", "s", "e", "t", "4">>
asset5 == <<"a", "s", "s", "e", "t", "5">>
asset6 == <<"a", "s", "s", "e", "t", "6">>
asset7 == <<"a", "s", "s", "e", "t", "7">>
blue == <<"b", "l", "u", "e">>
red == <<"r", "e", "d">>
green == <<"g", "r", "e", "e", "n">>
yellow == <<"y", "e", "l", "l", "o", "w">>
black == <<"b", "l", "a", "c", "k">>
white == <<"w", "h", "i", "t", "e">>
Tomoko == <<"T", "o", "m", "o", "k", "o">>
Brad == <<"B", "r", "a", "d">>
JinSoo == <<"J", "i", "n", " ", "S", "o", "o">>
ownerMax == <<"M", "a", "x">>
Adriana == <<"A", "d", "r", "i", "a", "n", "a">>
Michel == <<"M", "i", "c", "h", "e", "l">>
Alice == <<"A", "l", "i", "c", "e">>
assetDocType == <<"a", "s", "s", "e", "t">>

\* const index = "color~name"
index == <<"c", "o", "l", "o", "r", "~", "n", "a", "m", "e">>

(***************************************************************************)
(* Values, errors, the Asset record and its JSON encoding                  *)
(***************************************************************************)

Nil == [kind |-> "nil", obj |-> <<>>, raw |-> <<>>]
RawBytes(cs) == [kind |-> "raw", obj |-> <<>>, raw |-> cs]
JsonObject(ms) == [kind |-> "object", obj |-> ms, raw |-> <<>>]
JsonNull == [kind |-> "null", obj |-> <<>>, raw |-> <<>>]

JString(s) == [t |-> "string", s |-> s, n |-> 0]
JNumber(n) == [t |-> "number", s |-> <<>>, n |-> n]

\* An error value: the format string of the message and its arguments
\* ("" is Go's nil error).  cause is the format of the error it wraps.
NoErr == [fmt |-> "", args |-> <<>>, cause |-> ""]
Errorf(f, a, c) == [fmt |-> f, args |-> a, cause |-> c]
LedgerErr == Errorf("ledger access failure", <<>>, "")
IsErr(e) == e.fmt # ""

\* type Asset struct
Asset(docType, id, color, size, owner, value) ==
    [DocType |-> docType, ID |-> id, Color |-> color, Size |-> size,
     Owner |-> owner, AppraisedValue |-> value]

ZeroAsset == Asset(<<>>, <<>>, <<>>, 0, <<>>, 0)

\* encoding/json writes a string coerced to valid UTF-8: every invalid
\* byte becomes the replacement rune U+FFFD.
CoerceUTF8(s) == [i \in DOMAIN s |-> IF s[i] = "xFF" THEN "uFFFD" ELSE s[i]]

\* json.Marshal(asset): the members in field order, named by the json tags.
JsonMarshal(a) ==
    JsonObject(<<[name |-> "docType", v |-> JString(CoerceUTF8(a.DocType))],
                 [name |-> "ID", v |-> JString(CoerceUTF8(a.ID))],
                 [name |-> "color", v |-> JString(CoerceUTF8(a.Color))],
                 [name |-> "size", v |-> JNumber(a.Size)],
                 [name |-> "owner", v |-> JString(CoerceUTF8(a.Owner))],
                 [name |-> "appraisedValue", v |-> JNumber(a.AppraisedValue)]>>)

\* The positions of the members of obj called name.
MemberAt(obj, name) == {i \in DOMAIN obj : obj[i].name = name}

\* A member of the wrong JSON type for its field is an UnmarshalTypeError.
TypeMismatch(obj, name, t) == \E i \in MemberAt(obj, name) : obj[i].v.t # t

\* The value json.Unmarshal leaves in a field: that of the last member
\* with the field's name, or the field's zero value when there is none.
StringField(obj, name) ==
    LET at == MemberAt(obj, name)
    IN  IF at = {} THEN <<>>
        ELSE obj[CHOOSE i \in at : \A j \in at : j <= i].v.s

NumberField(obj, name) ==
    LET at == MemberAt(obj, name)
    IN  IF at = {} THEN 0
        ELSE obj[CHOOSE i \in at : \A j \in at : j <= i].v.n

\* json.Unmarshal(data, &asset) into a zero Asset: [asset, err].  Bytes that
\* are not JSON are a syntax error; null leaves the Asset at its zero value;
\* an object sets the fields it names and leaves the others zero.
JsonUnmarshal(data) ==
    CASE data.kind = "null" -> [asset |-> ZeroAsset, err |-> NoErr]
      [] data.kind = "object" ->
           IF \/ TypeMismatch(data.obj, "docType", "string")
              \/ TypeMismatch(data.obj, "ID", "string")
              \/ TypeMismatch(data.obj, "color", "string")
              \/ TypeMismatch(data.obj, "size", "number")
              \/ TypeMismatch(data.obj, "owner", "string")
              \/ TypeMismatch(data.obj, "appraisedValue", "number")
           THEN [asset |-> ZeroAsset,
                 err |-> Errorf("json: cannot unmarshal", <<>>, "")]
           ELSE [asset |-> Asset(StringField(data.obj, "docType"),
                                 StringField(data.obj, "ID"),
                                 StringField(data.obj, "color"),
                                 NumberField(data.obj, "size"),
                                 StringField(data.obj, "owner"),
                                 NumberField(data.obj, "appraisedValue")),
                 err |-> NoErr]
      [] OTHER -> [asset |-> ZeroAsset,
                   err |-> Errorf("invalid character", <<>>, "")]

(***************************************************************************)
(* Ledger Access: the stub of the transaction context.  A context ctx is   *)
(* [state, calls, writes, failAt, rich]: the committed world state the     *)
(* invocation reads (a function from the keys present to their values),    *)
(* the ledger calls made so far, the writes issued so far, the number of   *)
(* the call that the ledger fails (0: none), and whether the state         *)
(* database supports structured queries.  Reads see the committed state,   *)
(* never the invocation's own writes.                                      *)
(***************************************************************************)

NewContext(state, failAt, rich) ==
    [state |-> state, calls |-> <<>>, writes |-> <<>>, failAt |-> failAt,
     rich |-> rich]

\* The context of an invocation on a peer that keeps the history database:
\* ch is the block store, with the history of every key.
ChainContext(state, ch, failAt, rich) ==
    [state |-> state, calls |-> <<>>, writes |-> <<>>, failAt |-> failAt,
     rich |-> rich, chain |-> ch]

Fails(ctx) == ctx.failAt = Len(ctx.calls) + 1

\* A ledger call is recorded with its arguments, whether it succeeded and
\* what it returned.
Log(ctx, fn, args, ok, out) ==
    [ctx EXCEPT !.calls = Append(@, [fn |-> fn, args |-> args, ok |-> ok,
                                     out |-> out])]

Lookup(state, key) == IF key \in DOMAIN state THEN state[key] ELSE Nil

GetState(ctx, key) ==
    IF Fails(ctx)
    THEN [ctx |-> Log(ctx, "GetState", <<key>>, FALSE, <<>>), val |-> Nil,
          err |-> LedgerErr]
    ELSE [ctx |-> Log(ctx, "GetState", <<key>>, TRUE, <<>>),
          val |-> Lookup(ctx.state, key), err |-> NoErr]

\* PutState refuses the empty key.
PutState(ctx, key, value) ==
    IF key = <<>>
    THEN [ctx |-> Log(ctx, "PutState", <<key, value>>, FALSE, <<>>),
          err |-> Errorf("key must not be an empty string", <<>>, "")]
    ELSE IF Fails(ctx)
    THEN [ctx |-> Log(ctx, "PutState", <<key, value>>, FALSE, <<>>),
          err |-> LedgerErr]
    ELSE [ctx |-> [Log(ctx, "PutState", <<key, value>>, TRUE, <<>>) EXCEPT
                     !.writes = Append(@, [key |-> key, value |-> value,
                                           isDelete |-> FALSE])],
          err |-> NoErr]

DelState(ctx, key) ==
    IF Fails(ctx)
    THEN [ctx |-> Log(ctx, "DelState", <<key>>, FALSE, <<>>), err |-> LedgerErr]
    ELSE [ctx |-> [Log(ctx, "DelState", <<key>>, TRUE, <<>>) EXCEPT
                     !.writes = Append(@, [key |-> key, value |-> Nil,
                                           isDelete |-> TRUE])],
          err |-> NoErr]

\* An attribute of a compound key is valid UTF-8 and holds neither U+0000
\* nor U+10FFFF.
ValidAttribute(s) ==
    ValidUTF8(s) /\ ~Contains(s, "NUL") /\ ~Contains(s, "uMAX")

RECURSIVE JoinAttributes(_)
JoinAttributes(attrs) ==
    IF attrs = <<>> THEN <<>>
    ELSE Head(attrs) \o <<"NUL">> \o JoinAttributes(Tail(attrs))

\* The compound key: U+0000, the object type, U+0000, then every attribute
\* followed by U+0000.
CreateCompositeKey(objectType, attrs) ==
    IF ValidAttribute(objectType) /\ \A i \in DOMAIN attrs : ValidAttribute(attrs[i])
    THEN [key |-> <<"NUL">> \o objectType \o <<"NUL">> \o JoinAttributes(attrs),
          err |-> NoErr]
    ELSE [key |-> <<>>,
          err |-> Errorf("invalid composite key attribute", <<>>, "")]

\* The components of a compound key: the text between the U+0000
\* separators after the first character.
RECURSIVE SplitFrom(_, _, _)
SplitFrom(key, from, i) ==
    IF i > Len(key) THEN <<>>
    ELSE IF key[i] = "NUL"
    THEN <<SubSeq(key, from, i - 1)>> \o SplitFrom(key, i + 1, i + 1)
    ELSE SplitFrom(key, from, i + 1)

SplitCompositeKey(key) ==
    LET parts == SplitFrom(key, 2, 2)
    IN  IF parts = <<>>
        THEN [objectType |-> <<>>, attrs |-> <<>>,
              err |-> Errorf("invalid composite key", <<>>, "")]
        ELSE [objectType |-> Head(parts), attrs |-> Tail(parts), err |-> NoErr]

RECURSIVE SortKeys(_)
SortKeys(S) ==
    IF S = {} THEN <<>>
    ELSE LET m == CHOOSE x \in S : \A y \in S : StrLeq(x, y)
         IN  <<m>> \o SortKeys(S \ {m})

\* The entries with startKey <= key < endKey in key order (an empty endKey
\* is no upper bound).
RangeScan(state, startKey, endKey) ==
    LET ks == SortKeys({k \in DOMAIN state :
                          /\ StrLeq(startKey, k)
                          /\ endKey = <<>> \/ StrLess(k, endKey)})
    IN  [i \in DOMAIN ks |-> [Key |-> ks[i], Value |-> state[ks[i]]]]

\* A key of the plain keyspace does not start with U+0000, the first
\* character of every compound key.
ValidSimpleKey(key) == key = <<>> \/ key[1] # "NUL"

\* An empty start key stands for the first key of the plain keyspace.
SimpleStart(startKey) == IF startKey = <<>> THEN <<"x01">> ELSE startKey

GetStateByRange(ctx, startKey, endKey) ==
    IF ~(ValidSimpleKey(startKey) /\ ValidSimpleKey(endKey))
    THEN [ctx |-> Log(ctx, "GetStateByRange", <<startKey, endKey>>, FALSE, <<>>),
          it |-> <<>>, err |-> Errorf("invalid simple key", <<>>, "")]
    ELSE IF Fails(ctx)
    THEN [ctx |-> Log(ctx, "GetStateByRange", <<startKey, endKey>>, FALSE, <<>>),
          it |-> <<>>, err |-> LedgerErr]
    ELSE [ctx |-> Log(ctx, "GetStateByRange", <<startKey, endKey>>, TRUE, <<>>),
          it |-> RangeScan(ctx.state, SimpleStart(startKey), endKey),
          err |-> NoErr]

\* The prefix scan: the range from the partial compound key to the partial
\* compound key followed by U+10FFFF.
GetStateByPartialCompositeKey(ctx, objectType, attrs) ==
    LET ck == CreateCompositeKey(objectType, attrs)
    IN  IF IsErr(ck.err)
        THEN [ctx |-> Log(ctx, "GetStateByPartialCompositeKey",
                          <<objectType, attrs>>, FALSE, <<>>),
              it |-> <<>>, err |-> ck.err]
        ELSE IF Fails(ctx)
        THEN [ctx |-> Log(ctx, "GetStateByPartialCompositeKey",
                          <<objectType, attrs>>, FALSE, <<>>),
              it |-> <<>>, err |-> LedgerErr]
        ELSE [ctx |-> Log(ctx, "GetStateByPartialCompositeKey",
                          <<objectType, attrs>>, TRUE, <<>>),
              it |-> RangeScan(ctx.state, ck.key, ck.key \o <<"uMAX">>),
              err |-> NoErr]

\* The records a page holds: pageSize when it is positive, every record
\* otherwise.
PageLimit(pageSize, n) == IF pageSize > 0 /\ pageSize < n THEN pageSize ELSE n

\* What a paginated call returns: the call logged with its metadata, the
\* iterator over the page, the metadata and the error.
PageOf(ctx, fn, args, it, count, bookmark) ==
    LET meta == [FetchedRecordsCount |-> count, Bookmark |-> bookmark]
    IN  [ctx |-> Log(ctx, fn, args, TRUE, meta), it |-> it, meta |-> meta,
         err |-> NoErr]

NoPage(ctx, fn, args, err) ==
    [ctx |-> Log(ctx, fn, args, FALSE, <<>>), it |-> <<>>,
     meta |-> [FetchedRecordsCount |-> 0, Bookmark |-> <<>>], err |-> err]

\* A page of the range: it starts at the bookmark when there is one, and
\* the bookmark it returns is the key the next page starts at, empty when
\* nothing is left.  With page size 0 and no bookmark the call is not
\* paginated: every record and empty metadata.
RangePageOf(ctx, fn, args, all, n) ==
    PageOf(ctx, fn, args, SubSeq(all, 1, n), n,
           IF n < Len(all) THEN all[n + 1].Key ELSE <<>>)

RangePage(ctx, fn, args, all, pageSize, bookmark) ==
    IF pageSize = 0 /\ bookmark = <<>>
    THEN PageOf(ctx, fn, args, all, 0, <<>>)
    ELSE RangePageOf(ctx, fn, args, all, PageLimit(pageSize, Len(all)))

GetStateByRangeWithPagination(ctx, startKey, endKey, pageSize, bookmark) ==
    LET fn == "GetStateByRangeWithPagination"
        args == <<startKey, endKey, pageSize, bookmark>>
        from == IF bookmark # <<>> THEN bookmark ELSE SimpleStart(startKey)
    IN  IF ~(ValidSimpleKey(startKey) /\ ValidSimpleKey(endKey))
        THEN NoPage(ctx, fn, args, Errorf("invalid simple key", <<>>, ""))
        ELSE IF Fails(ctx) THEN NoPage(ctx, fn, args, LedgerErr)
        ELSE RangePage(ctx, fn, args, RangeScan(ctx.state, from, endKey),
                       pageSize, bookmark)

(***************************************************************************)
(* Structured queries.  A query string is                                  *)
(* {"selector":{"name":"value",...}}; the state database selects the JSON  *)
(* documents whose string fields have the values the selector names.       *)
(***************************************************************************)

selectorOpen ==
    <<"{", "\"", "s", "e", "l", "e", "c", "t", "o", "r", "\"", ":", "{">>

\* The string literal of q that opens at position i: [ok, s, next].
RECURSIVE ClosingQuote(_, _)
ClosingQuote(q, j) ==
    IF j > Len(q) THEN 0
    ELSE IF q[j] = "\"" THEN j
    ELSE ClosingQuote(q, j + 1)

ParseString(q, i) ==
    LET j == ClosingQuote(q, i + 1)
    IN  IF i > Len(q) \/ q[i] # "\"" \/ j = 0
        THEN [ok |-> FALSE, s |-> <<>>, next |-> 0]
        ELSE [ok |-> TRUE, s |-> SubSeq(q, i + 1, j - 1), next |-> j + 1]

\* The member "name":"value" whose string literals are k and v:
\* [ok, cond, next].
MemberOf(q, k, v) ==
    IF ~k.ok \/ k.next > Len(q) \/ q[k.next] # ":" \/ ~v.ok
    THEN [ok |-> FALSE, cond |-> <<>>, next |-> 0]
    ELSE [ok |-> TRUE, cond |-> [name |-> k.s, value |-> v.s], next |-> v.next]

MemberAfterName(q, k) == MemberOf(q, k, ParseString(q, k.next + 1))

ParseMember(q, i) == MemberAfterName(q, ParseString(q, i))

\* The members of q from position i on, separated by commas:
\* [ok, conds, next].
RECURSIVE ParseMembers(_, _, _)
MembersFrom(q, m, conds) ==
    IF ~m.ok THEN [ok |-> FALSE, conds |-> <<>>, next |-> 0]
    ELSE IF m.next <= Len(q) /\ q[m.next] = ","
    THEN ParseMembers(q, m.next + 1, Append(conds, m.cond))
    ELSE [ok |-> TRUE, conds |-> Append(conds, m.cond), next |-> m.next]

ParseMembers(q, i, conds) == MembersFrom(q, ParseMember(q, i), conds)

SelectorOf(q, n, m) ==
    IF Len(q) < n \/ SubSeq(q, 1, n) # selectorOpen \/ ~m.ok
    THEN [ok |-> FALSE, conds |-> <<>>]
    ELSE IF m.next + 1 = Len(q) /\ q[m.next] = "}" /\ q[m.next + 1] = "}"
    THEN [ok |-> TRUE, conds |-> m.conds]
    ELSE [ok |-> FALSE, conds |-> <<>>]

ParseSelector(q) ==
    SelectorOf(q, Len(selectorOpen), ParseMembers(q, Len(selectorOpen) + 1, <<>>))

\* The name of a JSON member as a string of characters.
NameChars(name) ==
    CASE name = "docType" -> <<"d", "o", "c", "T", "y", "p", "e">>
      [] name = "ID" -> <<"I", "D">>
      [] name = "color" -> <<"c", "o", "l", "o", "r">>
      [] name = "size" -> <<"s", "i", "z", "e">>
      [] name = "owner" -> <<"o", "w", "n", "e", "r">>
      [] name = "appraisedValue" ->
           <<"a", "p", "p", "r", "a", "i", "s", "e", "d", "V", "a", "l", "u", "e">>

\* A stored value satisfies a condition when it is a JSON object with a
\* string member of that name and value.
Satisfies(value, cond) ==
    /\ value.kind = "object"
    /\ \E i \in DOMAIN value.obj :
          /\ NameChars(value.obj[i].name) = cond.name
          /\ value.obj[i].v.t = "string"
          /\ value.obj[i].v.s = cond.value

\* The documents a selector selects, in key order.
Selected(state, conds) ==
    LET ks == SortKeys({k \in DOMAIN state :
                          \A i \in DOMAIN conds : Satisfies(state[k], conds[i])})
    IN  [i \in DOMAIN ks |-> [Key |-> ks[i], Value |-> state[ks[i]]]]

\* The opaque bookmark the state database hands out after the document
\* under key.
BookmarkAfter(key) == <<"~">> \o key

\* A page of a structured query: the selected documents after the one the
\* bookmark names.  The bookmark returned names the last document of the
\* page and is the caller's when the page is empty.
QueryPageOf(ctx, fn, args, rest, n, bookmark) ==
    PageOf(ctx, fn, args, SubSeq(rest, 1, n), n,
           IF n = 0 THEN bookmark ELSE BookmarkAfter(rest[n].Key))

\* The documents after the one the bookmark names.
AfterBookmark(docs, bookmark) ==
    IF bookmark = <<>> THEN docs
    ELSE SubSeq(docs,
                Cardinality({i \in DOMAIN docs :
                               StrLeq(docs[i].Key, Tail(bookmark))}) + 1,
                Len(docs))

QueryPageFrom(ctx, fn, args, rest, pageSize, bookmark) ==
    QueryPageOf(ctx, fn, args, rest, PageLimit(pageSize, Len(rest)), bookmark)

QueryPage(ctx, fn, args, sel, pageSize, bookmark) ==
    IF ~ctx.rich
    THEN NoPage(ctx, fn, args,
                Errorf("ExecuteQuery not supported for leveldb", <<>>, ""))
    ELSE IF Fails(ctx) THEN NoPage(ctx, fn, args, LedgerErr)
    ELSE IF ~sel.ok
    THEN NoPage(ctx, fn, args, Errorf("invalid query", <<>>, ""))
    ELSE IF bookmark # <<>> /\ Head(bookmark) # "~"
    THEN NoPage(ctx, fn, args, Errorf("invalid bookmark", <<>>, ""))
    ELSE IF pageSize < 0
    THEN NoPage(ctx, fn, args, Errorf("invalid limit", <<>>, ""))
    ELSE IF pageSize = 0 /\ bookmark = <<>>
    THEN PageOf(ctx, fn, args, Selected(ctx.state, sel.conds), 0, <<>>)
    ELSE QueryPageFrom(ctx, fn, args,
                       AfterBookmark(Selected(ctx.state, sel.conds), bookmark),
                       pageSize, bookmark)

GetQueryResultWithPagination(ctx, queryString, pageSize, bookmark) ==
    QueryPage(ctx, "GetQueryResultWithPagination",
              <<queryString, pageSize, bookmark>>, ParseSelector(queryString),
              pageSize, bookmark)

\* An unpaginated structured query: the selected documents in key order.
QueryAll(ctx, fn, args, sel) ==
    IF ~ctx.rich
    THEN [ctx |-> Log(ctx, fn, args, FALSE, <<>>), it |-> <<>>,
          err |-> Errorf("ExecuteQuery not supported for leveldb", <<>>, "")]
    ELSE IF Fails(ctx)
    THEN [ctx |-> Log(ctx, fn, args, FALSE, <<>>), it |-> <<>>, err |-> LedgerErr]
    ELSE IF ~sel.ok
    THEN [ctx |-> Log(ctx, fn, args, FALSE, <<>>), it |-> <<>>,
          err |-> Errorf("invalid query", <<>>, "")]
    ELSE [ctx |-> Log(ctx, fn, args, TRUE, <<>>),
          it |-> Selected(ctx.state, sel.conds), err |-> NoErr]

GetQueryResult(ctx, queryString) ==
    QueryAll(ctx, "GetQueryResult", <<queryString>>, ParseSelector(queryString))

\* The entries of a key's history in the order of the host's iterator.
HistoryOf(ch, key) ==
    IF key \notin DOMAIN ch.history THEN <<>>
    ELSE IF ch.newestFirst
    THEN [i \in DOMAIN ch.history[key] |->
            ch.history[key][Len(ch.history[key]) + 1 - i]]
    ELSE ch.history[key]

\* The historical-change iterator of a key; a host that keeps no history
\* database refuses it.
GetHistoryForKey(ctx, key) ==
    IF ~ctx.chain.on
    THEN [ctx |-> Log(ctx, "GetHistoryForKey", <<key>>, FALSE, <<>>),
          it |-> <<>>,
          err |-> Errorf("history database not enabled", <<>>, "")]
    ELSE IF Fails(ctx)
    THEN [ctx |-> Log(ctx, "GetHistoryForKey", <<key>>, FALSE, <<>>),
          it |-> <<>>, err |-> LedgerErr]
    ELSE [ctx |-> Log(ctx, "GetHistoryForKey", <<key>>, TRUE, <<>>),
          it |-> HistoryOf(ctx.chain, key), err |-> NoErr]

\* ptypes.Timestamp(ts): the time of a protobuf timestamp, an error when
\* its nanoseconds are out of range.
PtypesTimestamp(ts) ==
    IF ts.Nanos < 0 \/ ts.Nanos >= 1000000000
    THEN [t |-> 0, err |-> Errorf("timestamp: nanos not in range", <<>>, "")]
    ELSE [t |-> ts.Seconds, err |-> NoErr]

\* resultsIterator.Next(): the ledger may fail to deliver the entry.
IterNext(ctx, entry) ==
    IF Fails(ctx)
    THEN [ctx |-> Log(ctx, "Next", <<entry.Key>>, FALSE, <<>>), err |-> LedgerErr]
    ELSE [ctx |-> Log(ctx, "Next", <<entry.Key>>, TRUE, <<>>), err |-> NoErr]

\* resultsIterator.Close()
IterClose(ctx) == Log(ctx, "Close", <<>>, ~Fails(ctx), <<>>)

(***************************************************************************)
(* The contract: every handler maps a context and its arguments to         *)
(* [ctx, err, ret], the context after its ledger calls, the error it       *)
(* returns and its result.                                                 *)
(***************************************************************************)

\* AssetExists returns true when asset with given ID exists in the ledger.
AssetExists(ctx, assetID) ==
    LET g == GetState(ctx, assetID)
    IN  IF IsErr(g.err)
        THEN [ctx |-> g.ctx, ret |-> FALSE,
              err |-> Errorf("failed to read asset %s from world state. %v",
                             <<assetID>>, g.err.fmt)]
        ELSE [ctx |-> g.ctx, ret |-> g.val # Nil, err |-> NoErr]

\* The record CreateAsset builds from its arguments.
NewAsset(assetID, color, size, owner, appraisedValue) ==
    Asset(assetDocType, assetID, color, size, owner, appraisedValue)

\* The marker stored under an index key: the single byte 0x00.
IndexValue == RawBytes(<<"NUL">>)

\* CreateAsset without the existence check: it overwrites.
CreateAssetOverwriting(ctx, assetID, color, size, owner, appraisedValue) ==
    LET asset == NewAsset(assetID, color, size, owner, appraisedValue)
        p1 == PutState(ctx, assetID, JsonMarshal(asset))
        ck == CreateCompositeKey(index, <<asset.Color, asset.ID>>)
        p2 == PutState(p1.ctx, ck.key, IndexValue)
    IN  IF IsErr(p1.err) THEN [ctx |-> p1.ctx, ret |-> <<>>, err |-> p1.err]
        ELSE IF IsErr(ck.err) THEN [ctx |-> p1.ctx, ret |-> <<>>, err |-> ck.err]
        ELSE IF IsErr(p2.err) THEN [ctx |-> p2.ctx, ret |-> <<>>, err |-> p2.err]
        ELSE [ctx |-> p2.ctx, ret |-> <<>>, err |-> NoErr]

\* CreateAsset without the index entry: what the index invariant rules
\* out.
CreateAssetWithoutIndex(ctx, assetID, color, size, owner, appraisedValue) ==
    LET e == AssetExists(ctx, assetID)
        asset == NewAsset(assetID, color, size, owner, appraisedValue)
        p1 == PutState(e.ctx, assetID, JsonMarshal(asset))
    IN  IF IsErr(e.err)
        THEN [ctx |-> e.ctx, ret |-> <<>>,
              err |-> Errorf("failed to get asset: %v", <<>>, e.err.fmt)]
        ELSE IF e.ret
        THEN [ctx |-> e.ctx, ret |-> <<>>,
              err |-> Errorf("asset already exists: %s", <<assetID>>, "")]
        ELSE [ctx |-> p1.ctx, ret |-> <<>>, err |-> p1.err]

\* CreateAsset that deletes the record again when the index write fails.
CreateAssetRollingBack(ctx, assetID, color, size, owner, appraisedValue) ==
    LET e == AssetExists(ctx, assetID)
        asset == NewAsset(assetID, color, size, owner, appraisedValue)
        p1 == PutState(e.ctx, assetID, JsonMarshal(asset))
        ck == CreateCompositeKey(index, <<asset.Color, asset.ID>>)
        p2 == PutState(p1.ctx, ck.key, IndexValue)
    IN  IF IsErr(e.err)
        THEN [ctx |-> e.ctx, ret |-> <<>>,
              err |-> Errorf("failed to get asset: %v", <<>>, e.err.fmt)]
        ELSE IF e.ret
        THEN [ctx |-> e.ctx, ret |-> <<>>,
              err |-> Errorf("asset already exists: %s", <<assetID>>, "")]
        ELSE IF IsErr(p1.err) THEN [ctx |-> p1.ctx, ret |-> <<>>, err |-> p1.err]
        ELSE IF IsErr(ck.err)
        THEN [ctx |-> DelState(p1.ctx, assetID).ctx, ret |-> <<>>, err |-> ck.err]
        ELSE IF IsErr(p2.err)
        THEN [ctx |-> DelState(p2.ctx, assetID).ctx, ret |-> <<>>, err |-> p2.err]
        ELSE [ctx |-> p2.ctx, ret |-> <<>>, err |-> NoErr]

\* CreateAsset initializes a new asset in the ledger.
CreateAsset(ctx, assetID, color, size, owner, appraisedValue) ==
    LET e == AssetExists(ctx, assetID)
        asset == NewAsset(assetID, color, size, owner, appraisedValue)
        p1 == PutState(e.ctx, assetID, JsonMarshal(asset))
        ck == CreateCompositeKey(index, <<asset.Color, asset.ID>>)
        p2 == PutState(p1.ctx, ck.key, IndexValue)
    IN  IF IsErr(e.err)
        THEN [ctx |-> e.ctx, ret |-> <<>>,
              err |-> Errorf("failed to get asset: %v", <<>>, e.err.fmt)]
        ELSE IF e.ret
        THEN [ctx |-> e.ctx, ret |-> <<>>,
              err |-> Errorf("asset already exists: %s", <<assetID>>, "")]
        ELSE IF IsErr(p1.err) THEN [ctx |-> p1.ctx, ret |-> <<>>, err |-> p1.err]
        ELSE IF IsErr(ck.err) THEN [ctx |-> p1.ctx, ret |-> <<>>, err |-> ck.err]
        ELSE IF IsErr(p2.err) THEN [ctx |-> p2.ctx, ret |-> <<>>, err |-> p2.err]
        ELSE [ctx |-> p2.ctx, ret |-> <<>>, err |-> NoErr]

\* ReadAsset that takes an absent record for an empty one.
ReadAssetLenient(ctx, assetID) ==
    LET g == GetState(ctx, assetID)
        u == JsonUnmarshal(g.val)
    IN  IF IsErr(g.err)
        THEN [ctx |-> g.ctx, ret |-> ZeroAsset,
              err |-> Errorf("failed to get asset %s: %v", <<assetID>>, g.err.fmt)]
        ELSE IF g.val = Nil THEN [ctx |-> g.ctx, ret |-> ZeroAsset, err |-> NoErr]
        ELSE IF IsErr(u.err) THEN [ctx |-> g.ctx, ret |-> ZeroAsset, err |-> u.err]
        ELSE [ctx |-> g.ctx, ret |-> u.asset, err |-> NoErr]

\* ReadAsset that takes the record from a read the host does not validate
\* at commit: the read leaves no trace in the context.
ReadAssetUnvalidated(ctx, assetID) ==
    LET g == GetState(ctx, assetID)
        u == JsonUnmarshal(g.val)
    IN  IF IsErr(g.err)
        THEN [ctx |-> ctx, ret |-> ZeroAsset,
              err |-> Errorf("failed to get asset %s: %v", <<assetID>>, g.err.fmt)]
        ELSE IF g.val = Nil
        THEN [ctx |-> ctx, ret |-> ZeroAsset,
              err |-> Errorf("asset %s does not exist", <<assetID>>, "")]
        ELSE IF IsErr(u.err) THEN [ctx |-> ctx, ret |-> ZeroAsset, err |-> u.err]
        ELSE [ctx |-> ctx, ret |-> u.asset, err |-> NoErr]

\* ReadAsset that writes the record it has read back to the ledger.
ReadAssetRewriting(ctx, assetID) ==
    LET g == GetState(ctx, assetID)
        u == JsonUnmarshal(g.val)
    IN  IF IsErr(g.err)
        THEN [ctx |-> g.ctx, ret |-> ZeroAsset,
              err |-> Errorf("failed to get asset %s: %v", <<assetID>>, g.err.fmt)]
        ELSE IF g.val = Nil
        THEN [ctx |-> g.ctx, ret |-> ZeroAsset,
              err |-> Errorf("asset %s does not exist", <<assetID>>, "")]
        ELSE IF IsErr(u.err) THEN [ctx |-> g.ctx, ret |-> ZeroAsset, err |-> u.err]
        ELSE [ctx |-> PutState(g.ctx, assetID, JsonMarshal(u.asset)).ctx,
              ret |-> u.asset, err |-> NoErr]

\* ReadAsset retrieves an asset from the ledger.
ReadAsset(ctx, assetID) ==
    LET g == GetState(ctx, assetID)
        u == JsonUnmarshal(g.val)
    IN  IF IsErr(g.err)
        THEN [ctx |-> g.ctx, ret |-> ZeroAsset,
              err |-> Errorf("failed to get asset %s: %v", <<assetID>>, g.err.fmt)]
        ELSE IF g.val = Nil
        THEN [ctx |-> g.ctx, ret |-> ZeroAsset,
              err |-> Errorf("asset %s does not exist", <<assetID>>, "")]
        ELSE IF IsErr(u.err) THEN [ctx |-> g.ctx, ret |-> ZeroAsset, err |-> u.err]
        ELSE [ctx |-> g.ctx, ret |-> u.asset, err |-> NoErr]

\* DeleteAsset that leaves the index entry behind.
DeleteAssetKeepingIndex(ctx, assetID) ==
    LET r == ReadAsset(ctx, assetID)
        d1 == DelState(r.ctx, assetID)
    IN  IF IsErr(r.err) THEN [ctx |-> r.ctx, ret |-> <<>>, err |-> r.err]
        ELSE IF IsErr(d1.err)
        THEN [ctx |-> d1.ctx, ret |-> <<>>,
              err |-> Errorf("failed to delete asset %s: %v", <<assetID>>,
                             d1.err.fmt)]
        ELSE [ctx |-> d1.ctx, ret |-> <<>>, err |-> NoErr]

\* DeleteAsset that removes the index entry before the record.
DeleteAssetIndexFirst(ctx, assetID) ==
    LET r == ReadAsset(ctx, assetID)
        asset == r.ret
        ck == CreateCompositeKey(index, <<asset.Color, asset.ID>>)
        d2 == DelState(r.ctx, ck.key)
        d1 == DelState(d2.ctx, assetID)
    IN  IF IsErr(r.err) THEN [ctx |-> r.ctx, ret |-> <<>>, err |-> r.err]
        ELSE IF IsErr(ck.err) THEN [ctx |-> r.ctx, ret |-> <<>>, err |-> ck.err]
        ELSE IF IsErr(d2.err) THEN [ctx |-> d2.ctx, ret |-> <<>>, err |-> d2.err]
        ELSE IF IsErr(d1.err)
        THEN [ctx |-> d1.ctx, ret |-> <<>>,
              err |-> Errorf("failed to delete asset %s: %v", <<assetID>>,
                             d1.err.fmt)]
        ELSE [ctx |-> d1.ctx, ret |-> <<>>, err |-> NoErr]

\* DeleteAsset removes an asset key-value pair from the ledger.
DeleteAsset(ctx, assetID) ==
    LET r == ReadAsset(ctx, assetID)
        asset == r.ret
        d1 == DelState(r.ctx, assetID)
        ck == CreateCompositeKey(index, <<asset.Color, asset.ID>>)
        d2 == DelState(d1.ctx, ck.key)
    IN  IF IsErr(r.err) THEN [ctx |-> r.ctx, ret |-> <<>>, err |-> r.err]
        ELSE IF IsErr(d1.err)
        THEN [ctx |-> d1.ctx, ret |-> <<>>,
              err |-> Errorf("failed to delete asset %s: %v", <<assetID>>,
                             d1.err.fmt)]
        ELSE IF IsErr(ck.err) THEN [ctx |-> d1.ctx, ret |-> <<>>, err |-> ck.err]
        ELSE IF IsErr(d2.err) THEN [ctx |-> d2.ctx, ret |-> <<>>, err |-> d2.err]
        ELSE [ctx |-> d2.ctx, ret |-> <<>>, err |-> NoErr]

\* asset = Asset{ID: asset.ID, Owner: newOwner}: the record is rebuilt
\* instead of updated.
SetOwnerRebuilding(asset, newOwner) ==
    [ZeroAsset EXCEPT !.ID = asset.ID, !.Owner = newOwner]

\* asset.Owner = newOwner
SetOwner(asset, newOwner) == [asset EXCEPT !.Owner = newOwner]

\* TransferAsset transfers an asset by setting a new owner name on the asset.
TransferAsset(ctx, assetID, newOwner) ==
    LET r == ReadAsset(ctx, assetID)
        p == PutState(r.ctx, assetID, JsonMarshal(SetOwner(r.ret, newOwner)))
    IN  IF IsErr(r.err) THEN [ctx |-> r.ctx, ret |-> <<>>, err |-> r.err]
        ELSE IF IsErr(p.err) THEN [ctx |-> p.ctx, ret |-> <<>>, err |-> p.err]
        ELSE [ctx |-> p.ctx, ret |-> <<>>, err |-> NoErr]

\* constructQueryResponseFromIterator constructs a slice of assets from the
\* resultsIterator: the loop from entry i of the iterator on, assets the
\* slice so far.
RECURSIVE constructFrom(_, _, _, _)
constructFrom(ctx, it, i, assets) ==
    IF i > Len(it) THEN [ctx |-> ctx, ret |-> assets, err |-> NoErr]
    ELSE LET nx == IterNext(ctx, it[i])
             u == JsonUnmarshal(it[i].Value)
         IN  IF IsErr(nx.err) THEN [ctx |-> nx.ctx, ret |-> <<>>, err |-> nx.err]
             ELSE IF IsErr(u.err) THEN [ctx |-> nx.ctx, ret |-> <<>>, err |-> u.err]
             ELSE constructFrom(nx.ctx, it, i + 1, Append(assets, u.asset))

\* The materialisation that advances the iterator once before its loop.
constructQueryResponseFromIteratorSkipping(ctx, it) ==
    constructFrom(ctx, it, 2, <<>>)

constructQueryResponseFromIterator(ctx, it) == constructFrom(ctx, it, 1, <<>>)

\* GetAssetsByRange performs a range query based on the start and end keys
\* provided; the iterator is closed as the handler returns.
GetAssetsByRange(ctx, startKey, endKey) ==
    LET o == GetStateByRange(ctx, startKey, endKey)
        c == constructQueryResponseFromIterator(o.ctx, o.it)
    IN  IF IsErr(o.err) THEN [ctx |-> o.ctx, ret |-> <<>>, err |-> o.err]
        ELSE IF IsErr(c.err)
        THEN [ctx |-> IterClose(c.ctx), ret |-> <<>>, err |-> c.err]
        ELSE [ctx |-> IterClose(c.ctx), ret |-> c.ret, err |-> NoErr]

\* The loop of TransferAssetByColor from entry i of the index scan on.
RECURSIVE transferFrom(_, _, _, _)
transferFrom(ctx, it, i, newOwner) ==
    IF i > Len(it) THEN [ctx |-> ctx, ret |-> <<>>, err |-> NoErr]
    ELSE LET nx == IterNext(ctx, it[i])
             sp == SplitCompositeKey(it[i].Key)
             returnedAssetID == sp.attrs[2]
             r == ReadAsset(nx.ctx, returnedAssetID)
             p == PutState(r.ctx, returnedAssetID,
                           JsonMarshal(SetOwner(r.ret, newOwner)))
         IN  IF IsErr(nx.err) THEN [ctx |-> nx.ctx, ret |-> <<>>, err |-> nx.err]
             ELSE IF IsErr(sp.err) THEN [ctx |-> nx.ctx, ret |-> <<>>, err |-> sp.err]
             ELSE IF Len(sp.attrs) > 1
             THEN IF IsErr(r.err) THEN [ctx |-> r.ctx, ret |-> <<>>, err |-> r.err]
                  ELSE IF IsErr(p.err)
                  THEN [ctx |-> p.ctx, ret |-> <<>>,
                        err |-> Errorf("transfer failed for asset %s: %v",
                                       <<returnedAssetID>>, p.err.fmt)]
                  ELSE transferFrom(p.ctx, it, i + 1, newOwner)
             ELSE transferFrom(nx.ctx, it, i + 1, newOwner)

\* TransferAssetByColor that closes the iterator after its loop only and not
\* when the loop returns early.
TransferAssetByColorLeaking(ctx, color, newOwner) ==
    LET o == GetStateByPartialCompositeKey(ctx, index, <<color>>)
        t == transferFrom(o.ctx, o.it, 1, newOwner)
    IN  IF IsErr(o.err) THEN [ctx |-> o.ctx, ret |-> <<>>, err |-> o.err]
        ELSE IF IsErr(t.err) THEN [ctx |-> t.ctx, ret |-> <<>>, err |-> t.err]
        ELSE [ctx |-> IterClose(t.ctx), ret |-> <<>>, err |-> NoErr]

\* TransferAssetByColor that scans the index from the color text on, without
\* the separator that ends the color.
TransferAssetByColorOpenPrefix(ctx, color, newOwner) ==
    LET o == [GetStateByPartialCompositeKey(ctx, index, <<color>>) EXCEPT
                !.it = SelectSeq(RangeScan(ctx.state,
                                           <<"NUL">> \o index \o <<"NUL">>,
                                           <<"NUL">> \o index \o <<"NUL", "uMAX">>),
                                 LAMBDA e :
                                     /\ Len(SplitCompositeKey(e.Key).attrs[1])
                                          >= Len(color)
                                     /\ SubSeq(SplitCompositeKey(e.Key).attrs[1],
                                               1, Len(color)) = color)]
        t == transferFrom(o.ctx, o.it, 1, newOwner)
    IN  IF IsErr(o.err) THEN [ctx |-> o.ctx, ret |-> <<>>, err |-> o.err]
        ELSE [ctx |-> IterClose(t.ctx), ret |-> <<>>, err |-> t.err]

\* TransferAssetByColor will transfer assets of a given color to a certain
\* new owner.
TransferAssetByColor(ctx, color, newOwner) ==
    LET o == GetStateByPartialCompositeKey(ctx, index, <<color>>)
        t == transferFrom(o.ctx, o.it, 1, newOwner)
    IN  IF IsErr(o.err) THEN [ctx |-> o.ctx, ret |-> <<>>, err |-> o.err]
        ELSE [ctx |-> IterClose(t.ctx), ret |-> <<>>, err |-> t.err]

\* The six literal assets of InitLedger, in order.
SeedAssets ==
    <<Asset(assetDocType, asset1, blue, 5, Tomoko, 300),
      Asset(assetDocType, asset2, red, 5, Brad, 400),
      Asset(assetDocType, asset3, green, 10, JinSoo, 500),
      Asset(assetDocType, asset4, yellow, 10, ownerMax, 600),
      Asset(assetDocType, asset5, black, 15, Adriana, 700),
      Asset(assetDocType, asset6, white, 15, Michel, 800)>>

\* The loop of InitLedger from asset i of assets on.
RECURSIVE initFrom(_, _, _)
initFrom(ctx, assets, i) ==
    IF i > Len(assets) THEN [ctx |-> ctx, ret |-> <<>>, err |-> NoErr]
    ELSE LET a == assets[i]
             c == CreateAsset(ctx, a.ID, a.Color, a.Size, a.Owner,
                              a.AppraisedValue)
         IN  IF IsErr(c.err) THEN c ELSE initFrom(c.ctx, assets, i + 1)

\* InitLedger that skips the assets that exist and goes on.
RECURSIVE initFromSkipping(_, _, _)
initFromSkipping(ctx, assets, i) ==
    IF i > Len(assets) THEN [ctx |-> ctx, ret |-> <<>>, err |-> NoErr]
    ELSE LET a == assets[i]
             c == CreateAsset(ctx, a.ID, a.Color, a.Size, a.Owner,
                              a.AppraisedValue)
         IN  initFromSkipping(c.ctx, assets, i + 1)

InitLedgerSkipping(ctx) == initFromSkipping(ctx, SeedAssets, 1)

\* InitLedger creates the initial set of assets in the ledger.
InitLedger(ctx) == initFrom(ctx, SeedAssets, 1)

\* A Go int is 64 bits wide: [q, r] is the value q * 2^31 + r with
\* 0 <= r < 2^31.
GoInt(q, r) == [q |-> q, r |-> r]

\* int32(pageSize): the low 32 bits, read as a signed number.
Int32(x) == IF x.q % 2 = 1 THEN x.r - 2147483647 - 1 ELSE x.r

PaginatedQueryResult(records, count, bookmark) ==
    [Records |-> records, FetchedRecordsCount |-> count, Bookmark |-> bookmark]

NoResult == PaginatedQueryResult(<<>>, 0, <<>>)

\* GetAssetsByRangeWithPagination that takes the bookmark for the last key
\* already returned and drops the first record of a continued page.
GetAssetsByRangeWithPaginationSkipping(ctx, startKey, endKey, pageSize, bookmark) ==
    LET o == GetStateByRangeWithPagination(ctx, startKey, endKey,
                                           Int32(pageSize), bookmark)
        c == constructQueryResponseFromIterator(o.ctx, o.it)
    IN  IF IsErr(o.err) THEN [ctx |-> o.ctx, ret |-> NoResult, err |-> o.err]
        ELSE IF IsErr(c.err)
        THEN [ctx |-> IterClose(c.ctx), ret |-> NoResult, err |-> c.err]
        ELSE [ctx |-> IterClose(c.ctx),
              ret |-> PaginatedQueryResult(
                          IF bookmark # <<>> /\ c.ret # <<>> THEN Tail(c.ret)
                          ELSE c.ret,
                          o.meta.FetchedRecordsCount, o.meta.Bookmark),
              err |-> NoErr]

\* GetAssetsByRangeWithPagination that returns no bookmark.
GetAssetsByRangeWithPaginationNoBookmark(ctx, startKey, endKey, pageSize, bookmark) ==
    LET o == GetStateByRangeWithPagination(ctx, startKey, endKey,
                                           Int32(pageSize), bookmark)
        c == constructQueryResponseFromIterator(o.ctx, o.it)
    IN  IF IsErr(o.err) THEN [ctx |-> o.ctx, ret |-> NoResult, err |-> o.err]
        ELSE IF IsErr(c.err)
        THEN [ctx |-> IterClose(c.ctx), ret |-> NoResult, err |-> c.err]
        ELSE [ctx |-> IterClose(c.ctx),
              ret |-> PaginatedQueryResult(c.ret, o.meta.FetchedRecordsCount,
                                           <<>>),
              err |-> NoErr]

\* GetAssetsByRangeWithPagination performs a range query based on the start
\* and end key, page size and a bookmark.
GetAssetsByRangeWithPagination(ctx, startKey, endKey, pageSize, bookmark) ==
    LET o == GetStateByRangeWithPagination(ctx, startKey, endKey,
                                           Int32(pageSize), bookmark)
        c == constructQueryResponseFromIterator(o.ctx, o.it)
    IN  IF IsErr(o.err) THEN [ctx |-> o.ctx, ret |-> NoResult, err |-> o.err]
        ELSE IF IsErr(c.err)
        THEN [ctx |-> IterClose(c.ctx), ret |-> NoResult, err |-> c.err]
        ELSE [ctx |-> IterClose(c.ctx),
              ret |-> PaginatedQueryResult(c.ret, o.meta.FetchedRecordsCount,
                                           o.meta.Bookmark),
              err |-> NoErr]

\* getQueryResultForQueryStringWithPagination executes the passed in query
\* string with pagination info.
getQueryResultForQueryStringWithPagination(ctx, queryString, pageSize, bookmark) ==
    LET o == GetQueryResultWithPagination(ctx, queryString, pageSize, bookmark)
        c == constructQueryResponseFromIterator(o.ctx, o.it)
    IN  IF IsErr(o.err) THEN [ctx |-> o.ctx, ret |-> NoResult, err |-> o.err]
        ELSE IF IsErr(c.err)
        THEN [ctx |-> IterClose(c.ctx), ret |-> NoResult, err |-> c.err]
        ELSE [ctx |-> IterClose(c.ctx),
              ret |-> PaginatedQueryResult(c.ret, o.meta.FetchedRecordsCount,
                                           o.meta.Bookmark),
              err |-> NoErr]

\* QueryAssetsWithPagination uses a query string, page size and a bookmark
\* to perform a query for assets.
QueryAssetsWithPagination(ctx, queryString, pageSize, bookmark) ==
    getQueryResultForQueryStringWithPagination(ctx, queryString,
                                               Int32(pageSize), bookmark)

\* getQueryResultForQueryString that takes a query the ledger refuses for a
\* query without results.
getQueryResultForQueryStringSilent(ctx, queryString) ==
    LET o == GetQueryResult(ctx, queryString)
        c == constructQueryResponseFromIterator(o.ctx, o.it)
    IN  IF IsErr(o.err) THEN [ctx |-> o.ctx, ret |-> <<>>, err |-> NoErr]
        ELSE IF IsErr(c.err)
        THEN [ctx |-> IterClose(c.ctx), ret |-> <<>>, err |-> c.err]
        ELSE [ctx |-> IterClose(c.ctx), ret |-> c.ret, err |-> NoErr]

\* getQueryResultForQueryString executes the passed in query string.
getQueryResultForQueryString(ctx, queryString) ==
    LET o == GetQueryResult(ctx, queryString)
        c == constructQueryResponseFromIterator(o.ctx, o.it)
    IN  IF IsErr(o.err) THEN [ctx |-> o.ctx, ret |-> <<>>, err |-> o.err]
        ELSE IF IsErr(c.err)
        THEN [ctx |-> IterClose(c.ctx), ret |-> <<>>, err |-> c.err]
        ELSE [ctx |-> IterClose(c.ctx), ret |-> c.ret, err |-> NoErr]

\* fmt.Sprintf(`{"selector":{"docType":"asset","owner":"%s"}}`, owner)
ownerQueryString(owner) ==
    selectorOpen \o <<"\"">> \o NameChars("docType") \o <<"\"", ":", "\"">>
    \o assetDocType \o <<"\"", ",", "\"">> \o NameChars("owner")
    \o <<"\"", ":", "\"">> \o owner \o <<"\"", "}", "}">>

\* QueryAssetsByOwner queries for assets based on the owner's name.
QueryAssetsByOwner(ctx, owner) ==
    getQueryResultForQueryString(ctx, ownerQueryString(owner))

\* QueryAssets uses a query string to perform a query for assets.
QueryAssets(ctx, queryString) == getQueryResultForQueryString(ctx, queryString)

\* type HistoryQueryResult struct
HistoryQueryResult(record, txId, timestamp, isDelete) ==
    [Record |-> record, TxId |-> txId, Timestamp |-> timestamp,
     IsDelete |-> isDelete]

\* The Asset of a history entry, with the placeholder also for a value that
\* does not deserialize.
historyAssetLenient(assetID, value) ==
    IF value # Nil /\ value # RawBytes(<<>>) /\ ~IsErr(JsonUnmarshal(value).err)
    THEN JsonUnmarshal(value)
    ELSE [asset |-> [ZeroAsset EXCEPT !.ID = assetID], err |-> NoErr]

\* The Asset of a history entry: the one its value encodes, or for an entry
\* without a value one that has the id only.
historyAsset(assetID, value) ==
    IF value # Nil /\ value # RawBytes(<<>>) THEN JsonUnmarshal(value)
    ELSE [asset |-> [ZeroAsset EXCEPT !.ID = assetID], err |-> NoErr]

\* The loop of GetAssetHistory from entry i of the history on.
RECURSIVE historyFrom(_, _, _, _, _)
historyFrom(ctx, it, i, assetID, records) ==
    IF i > Len(it) THEN [ctx |-> ctx, ret |-> records, err |-> NoErr]
    ELSE LET nx == IterNext(ctx, [Key |-> assetID])
             u == historyAsset(assetID, it[i].Value)
             ts == PtypesTimestamp(it[i].Timestamp)
         IN  IF IsErr(nx.err) THEN [ctx |-> nx.ctx, ret |-> <<>>, err |-> nx.err]
             ELSE IF IsErr(u.err) THEN [ctx |-> nx.ctx, ret |-> <<>>, err |-> u.err]
             ELSE IF IsErr(ts.err)
             THEN [ctx |-> nx.ctx, ret |-> <<>>, err |-> ts.err]
             ELSE historyFrom(nx.ctx, it, i + 1, assetID,
                              Append(records,
                                     HistoryQueryResult(u.asset, it[i].TxId,
                                                        ts.t, it[i].IsDelete)))

\* GetAssetHistory returns the chain of custody for an asset since issuance.
GetAssetHistory(ctx, assetID) ==
    LET o == GetHistoryForKey(ctx, assetID)
        c == historyFrom(o.ctx, o.it, 1, assetID, <<>>)
    IN  IF IsErr(o.err) THEN [ctx |-> o.ctx, ret |-> <<>>, err |-> o.err]
        ELSE IF IsErr(c.err)
        THEN [ctx |-> IterClose(c.ctx), ret |-> <<>>, err |-> c.err]
        ELSE [ctx |-> IterClose(c.ctx), ret |-> c.ret, err |-> NoErr]

(***************************************************************************)
(* The host: it runs one invocation at a time against the committed world  *)
(* state, commits the writes of an invocation that returns no error, in    *)
(* the order they were issued, and discards those of one that fails.       *)
(***************************************************************************)

EmptyLedger == [k \in {} |-> Nil]

ApplyWrite(state, w) ==
    IF w.isDelete THEN [k \in DOMAIN state \ {w.key} |-> state[k]]
    ELSE [k \in DOMAIN state \cup {w.key} |->
            IF k = w.key THEN w.value ELSE state[k]]

RECURSIVE ApplyWrites(_, _)
ApplyWrites(state, writes) ==
    IF writes = <<>> THEN state
    ELSE ApplyWrites(ApplyWrite(state, Head(writes)), Tail(writes))

Commit(state, r) == IF IsErr(r.err) THEN state ELSE ApplyWrites(state, r.ctx.writes)

\* The record of the invocation that ran last.
Invocation(op, args, failAt, r) ==
    [op |-> op, args |-> args, failAt |-> failAt, err |-> r.err, ret |-> r.ret,
     calls |-> r.ctx.calls, writes |-> r.ctx.writes]

NoInvocation ==
    [op |-> "none", args |-> <<>>, failAt |-> 0, err |-> NoErr, ret |-> <<>>,
     calls |-> <<>>, writes |-> <<>>]

NoSession == [kind |-> "none"]

\* The block store of the host: whether it keeps the history database, the
\* order its history iterator follows, whether its state database answers
\* structured queries, the number of transactions committed, their
\* invocations and the history of every key in commit order, the number of
\* transactions endorsed, those not yet validated, and the one validated
\* last.
NoChain ==
    [on |-> FALSE, newestFirst |-> FALSE, rich |-> TRUE, height |-> 0,
     txs |-> <<>>, history |-> [k \in {} |-> <<>>], submitted |-> 0,
     pending |-> {}, done |-> <<>>]

MaxTx == 3

\* The last write of a write set to every key it writes.
FinalWrites(writes) ==
    {writes[i] : i \in {j \in DOMAIN writes :
                          \A l \in (j + 1)..Len(writes) :
                              writes[l].key # writes[j].key}}

\* The block store after the commit of the write set of an invocation as
\* transaction height + 1: every key written gets one history entry.
Recorded(ch, op, args, writes) ==
    IF ~ch.on \/ writes = <<>> THEN ch
    ELSE LET ws == FinalWrites(writes)
             keys == {w.key : w \in ws}
             entry(k) == LET w == CHOOSE x \in ws : x.key = k
                         IN  [TxId |-> ch.height + 1, Value |-> w.value,
                              IsDelete |-> w.isDelete,
                              Timestamp |-> [Seconds |-> ch.height + 1,
                                             Nanos |-> 0]]
         IN  [ch EXCEPT
                !.height = @ + 1,
                !.txs = Append(@, [op |-> op, args |-> args]),
                !.history = [k \in DOMAIN @ \cup keys |->
                               IF k \notin keys THEN @[k]
                               ELSE IF k \in DOMAIN @ THEN Append(@[k], entry(k))
                               ELSE <<entry(k)>>]]

\* The host runs an invocation when it is idle: r is what the handler
\* returns on the committed state.
Run(op, args, failAt, r) ==
    /\ last.op = "none"
    /\ pg.kind = "none"
    /\ IsErr(r.err) \/ r.ctx.writes = <<>> \/ ~chain.on \/ chain.height < MaxTx
    /\ ledger' = Commit(ledger, r)
    /\ last' = Invocation(op, args, failAt, r)
    /\ chain' = IF IsErr(r.err) THEN chain
                ELSE Recorded(chain, op, args, r.ctx.writes)
    /\ UNCHANGED pg

\* The host hands the response to the caller and is idle again.
Respond ==
    /\ last.op # "none"
    /\ pg.kind = "none"
    /\ last' = NoInvocation
    /\ UNCHANGED <<ledger, pg, chain>>

(***************************************************************************)
(* The arguments the invocations are given                                 *)
(***************************************************************************)

MaxFault == 1

FaultPoints == 0..MaxFault

\* An id with U+0000 in it, and an owner that is not valid UTF-8.
nulId == <<"a", "NUL">>
rawOwner == <<"xFF">>
rawId == <<"a", "xFF">>

\* The key of the index entry of asset1 when it is blue, given as an id.
indexKeyId ==
    <<"NUL">> \o index \o <<"NUL">> \o blue \o <<"NUL">> \o asset1 \o <<"NUL">>

CreateIds == {asset1, asset2, <<>>, nulId, rawId}
TargetIds == {asset1, asset2, asset7, indexKeyId}
Colors == {blue, red}
Sizes == {5, 10}
Owners == {Tomoko, Alice, rawOwner}
Values == {300}
RangeKeys == {<<>>, asset2, asset4}

Ctx(failAt) == NewContext(ledger, failAt, TRUE)

InvokeInitLedger ==
    \E f \in FaultPoints :
        Run("InitLedger", <<>>, f, InitLedger(Ctx(f)))

InvokeCreateAsset ==
    \E id \in CreateIds, color \in Colors, size \in Sizes, owner \in Owners,
       value \in Values, f \in FaultPoints :
        Run("CreateAsset", <<id, color, size, owner, value>>, f,
            CreateAsset(Ctx(f), id, color, size, owner, value))

InvokeReadAsset ==
    \E id \in TargetIds, f \in FaultPoints :
        Run("ReadAsset", <<id>>, f, ReadAsset(Ctx(f), id))

InvokeAssetExists ==
    \E id \in TargetIds, f \in FaultPoints :
        Run("AssetExists", <<id>>, f, AssetExists(Ctx(f), id))

InvokeDeleteAsset ==
    \E id \in TargetIds, f \in FaultPoints :
        Run("DeleteAsset", <<id>>, f, DeleteAsset(Ctx(f), id))

InvokeTransferAsset ==
    \E id \in TargetIds, newOwner \in Owners, f \in FaultPoints :
        Run("TransferAsset", <<id, newOwner>>, f,
            TransferAsset(Ctx(f), id, newOwner))

InvokeTransferAssetByColor ==
    \E color \in Colors, newOwner \in Owners, f \in FaultPoints :
        Run("TransferAssetByColor", <<color, newOwner>>, f,
            TransferAssetByColor(Ctx(f), color, newOwner))

InvokeGetAssetsByRange ==
    \E startKey \in RangeKeys, endKey \in RangeKeys, f \in FaultPoints :
        Run("GetAssetsByRange", <<startKey, endKey>>, f,
            GetAssetsByRange(Ctx(f), startKey, endKey))

Init ==
    /\ ledger = EmptyLedger
    /\ last = NoInvocation
    /\ pg = NoSession
    /\ chain = NoChain

Next ==
    \/ InvokeInitLedger
    \/ InvokeCreateAsset
    \/ InvokeReadAsset
    \/ InvokeAssetExists
    \/ InvokeDeleteAsset
    \/ InvokeTransferAsset
    \/ InvokeTransferAssetByColor
    \/ InvokeGetAssetsByRange
    \/ Respond

Spec == Init /\ [][Next]_vars

(***************************************************************************)
(* Paging: a caller reads a result set page by page from an unchanging     *)
(* ledger, feeding the bookmark of each page into the next call until the  *)
(* ledger signals that nothing is left.  pg is the caller's session.       *)
(***************************************************************************)

Quoted(s) == <<"\"">> \o s \o <<"\"">>

\* {"selector":{"docType":"asset"}}
allAssetsQuery ==
    selectorOpen \o Quoted(NameChars("docType")) \o <<":">> \o Quoted(assetDocType)
    \o <<"}", "}">>

\* {"selector":{"docType":"asset","owner":"Tomoko"}}
tomokoQuery ==
    selectorOpen \o Quoted(NameChars("docType")) \o <<":">> \o Quoted(assetDocType)
    \o <<",">> \o Quoted(NameChars("owner")) \o <<":">> \o Quoted(Tomoko)
    \o <<"}", "}">>

QueryStrings == {allAssetsQuery, tomokoQuery, <<"{">>}

\* 1, 2, 3, 2^31, 2^32 and 2^32 + 1
PageSizes ==
    {GoInt(0, 1), GoInt(0, 2), GoInt(0, 3), GoInt(1, 0), GoInt(2, 0), GoInt(2, 1)}

PageStartKeys == {<<>>, asset2, asset4}
PageEndKeys == {<<>>, asset4, asset6}
FirstBookmarks == {<<>>, asset3, BookmarkAfter(asset2)}

Session(kind, startKey, endKey, queryString, pageSize, first, rich) ==
    [kind |-> kind, startKey |-> startKey, endKey |-> endKey,
     queryString |-> queryString, pageSize |-> pageSize, first |-> first,
     rich |-> rich, bookmark |-> first, acc |-> <<>>, pages |-> 0,
     done |-> FALSE, failed |-> FALSE]

\* A caller opens a session on the committed ledger while the host is idle.
StartSession ==
    /\ last.op = "none"
    /\ pg.kind = "none"
    /\ ledger # EmptyLedger
    /\ pg' \in {Session("range", startKey, endKey, <<>>, pageSize, first, TRUE) :
                  startKey \in PageStartKeys, endKey \in PageEndKeys,
                  pageSize \in PageSizes, first \in FirstBookmarks}
               \cup
               {Session("query", <<>>, <<>>, queryString, pageSize, first, rich) :
                  queryString \in QueryStrings, pageSize \in PageSizes,
                  first \in FirstBookmarks, rich \in BOOLEAN}
    /\ UNCHANGED <<ledger, last, chain>>

\* The session after a call that returned r; more says whether the ledger
\* signalled that results are left.
Paged(r, more) ==
    [pg EXCEPT !.acc = @ \o r.ret.Records,
               !.bookmark = r.ret.Bookmark,
               !.pages = @ + 1,
               !.failed = IsErr(r.err),
               !.done = IsErr(r.err) \/ ~more]

\* One GetAssetsByRangeWithPagination call of the session; an empty
\* bookmark comes back when the range is exhausted.
PageRange ==
    /\ pg.kind = "range"
    /\ ~pg.done
    /\ \E f \in FaultPoints :
          LET r == GetAssetsByRangeWithPagination(
                       NewContext(ledger, f, pg.rich), pg.startKey, pg.endKey,
                       pg.pageSize, pg.bookmark)
          IN  /\ last' = Invocation("GetAssetsByRangeWithPagination",
                                    <<pg.startKey, pg.endKey, pg.pageSize,
                                      pg.bookmark>>, f, r)
              /\ pg' = Paged(r, r.ret.Bookmark # <<>>)
    /\ UNCHANGED <<ledger, chain>>

\* One QueryAssetsWithPagination call of the session; a page that fetched
\* nothing is the end.
PageQuery ==
    /\ pg.kind = "query"
    /\ ~pg.done
    /\ \E f \in FaultPoints :
          LET r == QueryAssetsWithPagination(
                       NewContext(ledger, f, pg.rich), pg.queryString,
                       pg.pageSize, pg.bookmark)
          IN  /\ last' = Invocation("QueryAssetsWithPagination",
                                    <<pg.queryString, pg.pageSize, pg.bookmark>>,
                                    f, r)
              /\ pg' = Paged(r, r.ret.FetchedRecordsCount # 0)
    /\ UNCHANGED <<ledger, chain>>

\* The ledger is seeded and changed by invocations before the session opens.
NextPage ==
    \/ InvokeInitLedger
    \/ InvokeDeleteAsset
    \/ InvokeTransferAsset
    \/ Respond
    \/ StartSession
    \/ PageRange
    \/ PageQuery

SpecPage == Init /\ [][NextPage]_vars

(***************************************************************************)
(* A peer that keeps the history database, with or without a state         *)
(* database that answers structured queries.  Handlers run one at a time,  *)
(* as in Spec, and any one ledger call of an invocation may fail.          *)
(***************************************************************************)

MaxCall == 7

CallFaults == 0..MaxCall

HistoryIds == {asset1, asset2}
HistoryOwners == {Alice, rawOwner}

\* A peer whose state database answers structured queries and whose history
\* iterator runs newest first, and one without structured queries whose
\* history iterator runs oldest first.
Peers ==
    {[NoChain EXCEPT !.on = TRUE, !.newestFirst = b, !.rich = b] :
        b \in BOOLEAN}

PeerCtx(failAt) == ChainContext(ledger, chain, failAt, chain.rich)

PeerInitLedger ==
    \E f \in CallFaults :
        Run("InitLedger", <<>>, f, InitLedger(PeerCtx(f)))

PeerCreateAsset ==
    \E id \in HistoryIds \cup {nulId}, f \in CallFaults :
        Run("CreateAsset", <<id, blue, 5, Tomoko, 300>>, f,
            CreateAsset(PeerCtx(f), id, blue, 5, Tomoko, 300))

PeerTransferAsset ==
    \E id \in HistoryIds, newOwner \in HistoryOwners, f \in CallFaults :
        Run("TransferAsset", <<id, newOwner>>, f,
            TransferAsset(PeerCtx(f), id, newOwner))

PeerReadAsset ==
    \E id \in HistoryIds \cup {indexKeyId}, f \in CallFaults :
        Run("ReadAsset", <<id>>, f, ReadAsset(PeerCtx(f), id))

PeerAssetExists ==
    \E id \in HistoryIds, f \in CallFaults :
        Run("AssetExists", <<id>>, f, AssetExists(PeerCtx(f), id))

PeerDeleteAsset ==
    \E id \in HistoryIds, f \in CallFaults :
        Run("DeleteAsset", <<id>>, f, DeleteAsset(PeerCtx(f), id))

PeerTransferAssetByColor ==
    \E newOwner \in HistoryOwners, f \in CallFaults :
        Run("TransferAssetByColor", <<blue, newOwner>>, f,
            TransferAssetByColor(PeerCtx(f), blue, newOwner))

PeerGetAssetsByRange ==
    \E f \in CallFaults :
        Run("GetAssetsByRange", <<<<>>, <<>>>>, f,
            GetAssetsByRange(PeerCtx(f), <<>>, <<>>))

PeerGetAssetsByRangeWithPagination ==
    \E f \in CallFaults :
        Run("GetAssetsByRangeWithPagination", <<<<>>, <<>>, GoInt(0, 1), <<>>>>, f,
            GetAssetsByRangeWithPagination(PeerCtx(f), <<>>, <<>>, GoInt(0, 1),
                                           <<>>))

PeerQueryAssets ==
    \E f \in CallFaults :
        Run("QueryAssets", <<allAssetsQuery>>, f,
            QueryAssets(PeerCtx(f), allAssetsQuery))

\* The owner Tomoko","color":"blue: a name that holds double quotes.
quotedOwner ==
    Tomoko \o <<"\"", ",", "\"", "c", "o", "l", "o", "r", "\"", ":", "\"">> \o blue

PeerQueryAssetsByOwner ==
    \E owner \in HistoryOwners \cup {Tomoko, quotedOwner}, f \in CallFaults :
        Run("QueryAssetsByOwner", <<owner>>, f,
            QueryAssetsByOwner(PeerCtx(f), owner))

PeerQueryAssetsWithPagination ==
    \E f \in CallFaults :
        Run("QueryAssetsWithPagination", <<allAssetsQuery, GoInt(0, 1), <<>>>>, f,
            QueryAssetsWithPagination(PeerCtx(f), allAssetsQuery, GoInt(0, 1),
                                      <<>>))

PeerGetAssetHistory ==
    \E id \in HistoryIds \cup {indexKeyId}, f \in CallFaults :
        Run("GetAssetHistory", <<id>>, f, GetAssetHistory(PeerCtx(f), id))

InitPeer ==
    /\ ledger = EmptyLedger
    /\ last = NoInvocation
    /\ pg = NoSession
    /\ chain \in Peers

NextPeer ==
    \/ PeerInitLedger
    \/ PeerCreateAsset
    \/ PeerReadAsset
    \/ PeerAssetExists
    \/ PeerTransferAsset
    \/ PeerDeleteAsset
    \/ PeerTransferAssetByColor
    \/ PeerGetAssetsByRange
    \/ PeerGetAssetsByRangeWithPagination
    \/ PeerQueryAssets
    \/ PeerQueryAssetsByOwner
    \/ PeerQueryAssetsWithPagination
    \/ PeerGetAssetHistory
    \/ Respond

SpecQuery == InitPeer /\ [][NextPeer]_vars

(***************************************************************************)
(* Concurrent invocations.  A peer endorses an invocation by running its   *)
(* handler on the committed state and recording what it read and wrote;    *)
(* the transaction is validated later, when other transactions may have    *)
(* committed.  Validation compares the version of every key the handler    *)
(* read, and the result of every range or prefix scan it made, with the    *)
(* committed state: the transaction commits when nothing has changed and   *)
(* is discarded otherwise.                                                 *)
(***************************************************************************)

MaxSubmit == 3

\* The version of a key: the transaction that wrote it last, 0 when the key
\* is absent.
Version(state, ch, key) ==
    IF key \in DOMAIN state THEN ch.history[key][Len(ch.history[key])].TxId
    ELSE 0

\* The keys a scan yields on a state, with their versions.
ScanResult(state, ch, call) ==
    LET it == IF call.fn = "GetStateByRange"
              THEN GetStateByRange(NewContext(state, 0, TRUE),
                                   call.args[1], call.args[2]).it
              ELSE GetStateByPartialCompositeKey(NewContext(state, 0, TRUE),
                                                 call.args[1], call.args[2]).it
    IN  [i \in DOMAIN it |-> <<it[i].Key, Version(state, ch, it[i].Key)>>]

\* The read set of an invocation: the keys it got with their versions, and
\* the scans it made with their results.
ReadSet(state, ch, calls) ==
    [reads |-> {<<calls[i].args[1], Version(state, ch, calls[i].args[1])>> :
                  i \in {j \in DOMAIN calls :
                           calls[j].fn = "GetState" /\ calls[j].ok}},
     scans |-> {[call |-> [fn |-> calls[i].fn, args |-> calls[i].args],
                 result |-> ScanResult(state, ch, calls[i])] :
                  i \in {j \in DOMAIN calls :
                           /\ calls[j].fn \in {"GetStateByRange",
                                               "GetStateByPartialCompositeKey"}
                           /\ calls[j].ok}}]

\* The read set still holds on the committed state.
Valid(state, ch, rs) ==
    /\ \A rd \in rs.reads : Version(state, ch, rd[1]) = rd[2]
    /\ \A sc \in rs.scans : ScanResult(state, ch, sc.call) = sc.result

\* A peer endorses an invocation that returns no error.
Endorse(op, args, r) ==
    /\ chain.submitted < MaxSubmit
    /\ ~IsErr(r.err)
    /\ chain' = [chain EXCEPT
                   !.submitted = @ + 1,
                   !.pending = @ \cup
                       {[n |-> chain.submitted + 1, op |-> op, args |-> args,
                         at |-> chain.height,
                         rs |-> ReadSet(ledger, chain, r.ctx.calls),
                         writes |-> r.ctx.writes]}]
    /\ UNCHANGED <<ledger, last, pg>>

\* The committing peer validates a transaction and commits or discards it.
Validate ==
    \E tx \in chain.pending :
        LET ok == Valid(ledger, chain, tx.rs)
            ch == [chain EXCEPT !.pending = @ \ {tx},
                                !.done = [n |-> tx.n, op |-> tx.op,
                                          args |-> tx.args, at |-> tx.at,
                                          valid |-> ok]]
        IN  /\ ledger' = IF ok THEN ApplyWrites(ledger, tx.writes) ELSE ledger
            /\ chain' = IF ok THEN Recorded(ch, tx.op, tx.args, tx.writes)
                        ELSE ch
            /\ UNCHANGED <<last, pg>>

EndorseCreateAsset ==
    \E id \in HistoryIds, color \in Colors :
        Endorse("CreateAsset", <<id, color, 5, Tomoko, 300>>,
                CreateAsset(PeerCtx(0), id, color, 5, Tomoko, 300))

EndorseTransferAsset ==
    \E id \in HistoryIds, newOwner \in HistoryOwners :
        Endorse("TransferAsset", <<id, newOwner>>,
                TransferAsset(PeerCtx(0), id, newOwner))

EndorseDeleteAsset ==
    \E id \in HistoryIds :
        Endorse("DeleteAsset", <<id>>, DeleteAsset(PeerCtx(0), id))

EndorseTransferAssetByColor ==
    \E color \in Colors, newOwner \in HistoryOwners :
        Endorse("TransferAssetByColor", <<color, newOwner>>,
                TransferAssetByColor(PeerCtx(0), color, newOwner))

InitChain ==
    /\ ledger = EmptyLedger
    /\ last = NoInvocation
    /\ pg = NoSession
    /\ chain = [NoChain EXCEPT !.on = TRUE]

NextChain ==
    \/ EndorseCreateAsset
    \/ EndorseTransferAsset
    \/ EndorseDeleteAsset
    \/ EndorseTransferAssetByColor
    \/ Validate

SpecChain == InitChain /\ [][NextChain]_vars

(***************************************************************************)
(* Properties.  Committed is the context of a fresh invocation on the      *)
(* committed ledger with no ledger failure; it is how a state predicate    *)
(* asks what a further invocation would return.                            *)
(***************************************************************************)

(***************************************************************************)
(* The color index on its own: Assets of colors of which one is a prefix   *)
(* of another, and of the empty color, under ids of which one is the name  *)
(* of a color, are created, transferred by color and deleted.              *)
(***************************************************************************)

CodecColors == {<<>>, <<"b">>, blue}
CodecIds == {asset1, asset2, blue}

CodecCreateAsset ==
    \E id \in CodecIds, color \in CodecColors :
        Run("CreateAsset", <<id, color, 5, Tomoko, 300>>, 0,
            CreateAsset(Ctx(0), id, color, 5, Tomoko, 300))

CodecDeleteAsset ==
    \E id \in CodecIds :
        Run("DeleteAsset", <<id>>, 0, DeleteAsset(Ctx(0), id))

CodecTransferAssetByColor ==
    \E color \in CodecColors, f \in FaultPoints :
        Run("TransferAssetByColor", <<color, Alice>>, f,
            TransferAssetByColor(Ctx(f), color, Alice))

NextCodec ==
    \/ CodecCreateAsset
    \/ CodecDeleteAsset
    \/ CodecTransferAssetByColor
    \/ Respond

SpecCodec == Init /\ [][NextCodec]_vars

(***************************************************************************)
(* A ledger that another writer has left a value on: the key asset1 holds  *)
(* bytes that are no JSON, the JSON null, an empty object, an object that  *)
(* lacks fields of the Asset, or one whose size is a string.  The contract *)
(* is invoked on it.                                                       *)
(***************************************************************************)

ForeignValues ==
    {RawBytes(<<"{">>),
     JsonNull,
     JsonObject(<<>>),
     JsonObject(<<[name |-> "docType", v |-> JString(assetDocType)],
                  [name |-> "ID", v |-> JString(asset1)]>>),
     JsonObject(<<[name |-> "docType", v |-> JString(assetDocType)],
                  [name |-> "size", v |-> JString(<<"5">>)]>>)}

ForeignCreateAsset ==
    \E id \in {asset1, asset2}, f \in FaultPoints :
        Run("CreateAsset", <<id, blue, 5, Tomoko, 300>>, f,
            CreateAsset(Ctx(f), id, blue, 5, Tomoko, 300))

ForeignReadAsset ==
    \E id \in {asset1, asset2}, f \in FaultPoints :
        Run("ReadAsset", <<id>>, f, ReadAsset(Ctx(f), id))

ForeignTransferAsset ==
    \E id \in {asset1, asset2}, f \in FaultPoints :
        Run("TransferAsset", <<id, Alice>>, f, TransferAsset(Ctx(f), id, Alice))

ForeignGetAssetsByRange ==
    \E f \in FaultPoints :
        Run("GetAssetsByRange", <<<<>>, <<>>>>, f,
            GetAssetsByRange(Ctx(f), <<>>, <<>>))

ForeignQueryAssets ==
    \E f \in FaultPoints :
        Run("QueryAssets", <<allAssetsQuery>>, f,
            QueryAssets(ChainContext(ledger, chain, f, TRUE), allAssetsQuery))

InitForeign ==
    /\ ledger \in {[k \in {asset1} |-> v] : v \in ForeignValues}
    /\ last = NoInvocation
    /\ pg = NoSession
    /\ chain = NoChain

NextForeign ==
    \/ ForeignCreateAsset
    \/ ForeignReadAsset
    \/ ForeignTransferAsset
    \/ ForeignGetAssetsByRange
    \/ ForeignQueryAssets
    \/ Respond

SpecForeign == InitForeign /\ [][NextForeign]_vars

Committed == NewContext(ledger, 0, TRUE)

\* The keys of the compound keyspace start with U+0000.
IsIndexKey(k) == k # <<>> /\ Head(k) = "NUL"

AssetIds(state) == {k \in DOMAIN state : ~IsIndexKey(k)}

IndexKeys(state) == {k \in DOMAIN state : IsIndexKey(k)}

RecordOf(state, id) == JsonUnmarshal(state[id]).asset

IndexKeyOf(color, id) == CreateCompositeKey(index, <<color, id>>).key

\* The ids the prefix scan of the index yields for a color.
ScanIds(state, color) ==
    LET o == GetStateByPartialCompositeKey(NewContext(state, 0, TRUE), index,
                                           <<color>>)
    IN  [i \in DOMAIN o.it |-> SplitCompositeKey(o.it[i].Key).attrs[2]]

\* No ledger call of the last invocation failed.
NoLedgerFailure(inv) == \A i \in DOMAIN inv.calls : inv.calls[i].ok

\* C1: in every committed ledger state every key of the plain keyspace holds
\* an Asset record with that ID whose (color, id) index entry exists, and
\* every index entry is the (color, id) entry of an existing Asset record of
\* that color.  The two halves make id |-> (color of id, id) a one-to-one
\* correspondence between Assets and index entries that keeps the color, so
\* every Asset has exactly one entry and each color has as many entries as
\* Assets; the last conjunct states the count.
IndexInvariant ==
    /\ \A id \in AssetIds(ledger) :
          LET u == JsonUnmarshal(ledger[id])
              ck == CreateCompositeKey(index, <<u.asset.Color, id>>)
          IN  /\ ~IsErr(u.err)
              /\ u.asset.ID = id
              /\ ~IsErr(ck.err)
              /\ ck.key \in DOMAIN ledger
    /\ \A k \in IndexKeys(ledger) :
          LET sp == SplitCompositeKey(k)
          IN  /\ ~IsErr(sp.err)
              /\ sp.objectType = index
              /\ Len(sp.attrs) = 2
              /\ k = IndexKeyOf(sp.attrs[1], sp.attrs[2])
              /\ sp.attrs[2] \in AssetIds(ledger)
              /\ RecordOf(ledger, sp.attrs[2]).Color = sp.attrs[1]
              /\ ledger[k] = IndexValue
    /\ Cardinality(IndexKeys(ledger)) = Cardinality(AssetIds(ledger))

\* Two Assets of one color, both in the index, after a transfer by color.
IndexInvariantWitness ==
    /\ last.op = "TransferAssetByColor"
    /\ ~IsErr(last.err)
    /\ Len(ScanIds(ledger, last.args[1])) = 2
    /\ Cardinality(AssetIds(ledger)) > 2

\* C2: after CreateAsset(id, color, size, owner, value) succeeded and was
\* committed, AssetExists(id) returns true and ReadAsset(id) returns exactly
\* docType "asset", id, color, size, owner and value.
CreateThenRead ==
    (last.op = "CreateAsset" /\ ~IsErr(last.err)) =>
        LET e == AssetExists(Committed, last.args[1])
            r == ReadAsset(Committed, last.args[1])
        IN  /\ ~IsErr(e.err)
            /\ e.ret
            /\ ~IsErr(r.err)
            /\ r.ret = Asset(assetDocType, last.args[1], last.args[2],
                             last.args[3], last.args[4], last.args[5])

\* A committed CreateAsset whose owner is not valid UTF-8: the record read
\* back holds U+FFFD in its place.
CreateThenReadWitness ==
    /\ last.op = "CreateAsset"
    /\ ~IsErr(last.err)
    /\ last.args[4] = rawOwner
    /\ ReadAsset(Committed, last.args[1]).ret.Owner = <<"uFFFD">>

\* C3: CreateAsset on an id under which an Asset exists fails, issues no
\* write and leaves the ledger as it was, whatever color, size, owner and
\* value it carries; when no ledger call failed the error is the Conflict
\* "asset already exists" naming the id.
CreateExistingConflicts ==
    [][(last'.op = "CreateAsset" /\ last'.args[1] \in AssetIds(ledger)) =>
          /\ IsErr(last'.err)
          /\ last'.writes = <<>>
          /\ ledger' = ledger
          /\ NoLedgerFailure(last') =>
                /\ last'.err.fmt = "asset already exists: %s"
                /\ last'.err.args = <<last'.args[1]>>]_vars

\* A second CreateAsset with another color and owner was refused and the
\* stored record is the first one's.
CreateExistingWitness ==
    /\ last.op = "CreateAsset"
    /\ last.err.fmt = "asset already exists: %s"
    /\ RecordOf(ledger, last.args[1]).Color # last.args[2]
    /\ RecordOf(ledger, last.args[1]).Owner # last.args[4]

IsDelState(c) == c.fn = "DelState"

\* C4: ReadAsset and DeleteAsset on an id with nothing stored under it fail,
\* issue no write and no delete and leave the ledger as it was; when no
\* ledger call failed the error is the NotFound "does not exist" naming the
\* id.
AbsentNotFound ==
    [][(last'.op \in {"ReadAsset", "DeleteAsset"}
          /\ last'.args[1] \notin DOMAIN ledger) =>
          /\ IsErr(last'.err)
          /\ last'.writes = <<>>
          /\ SelectSeq(last'.calls, IsDelState) = <<>>
          /\ ledger' = ledger
          /\ NoLedgerFailure(last') =>
                /\ last'.err.fmt = "asset %s does not exist"
                /\ last'.err.args = <<last'.args[1]>>]_vars

\* DeleteAsset of an absent id on a ledger that holds Assets.
AbsentNotFoundWitness ==
    /\ last.op = "DeleteAsset"
    /\ last.err.fmt = "asset %s does not exist"
    /\ last.args[1] \notin DOMAIN ledger
    /\ AssetIds(ledger) # {}

\* C5: a successful TransferAsset(id, newOwner) writes only the record under
\* id, whose owner becomes newOwner while its other fields stay as they
\* were; every other key keeps its value and no key is added or removed.
TransferChangesOnlyOwner ==
    [][(last'.op = "TransferAsset" /\ ~IsErr(last'.err)) =>
          /\ last'.args[1] \in AssetIds(ledger)
          /\ RecordOf(ledger', last'.args[1])
               = [RecordOf(ledger, last'.args[1]) EXCEPT !.Owner = last'.args[2]]
          /\ DOMAIN ledger' = DOMAIN ledger
          /\ \A k \in DOMAIN ledger \ {last'.args[1]} : ledger'[k] = ledger[k]
          /\ \A i \in DOMAIN last'.writes :
                /\ last'.writes[i].key = last'.args[1]
                /\ ~last'.writes[i].isDelete]_vars

\* A committed TransferAsset to an owner that is not valid UTF-8: the
\* record holds U+FFFD in its place.
TransferOwnerWitness ==
    /\ last.op = "TransferAsset"
    /\ ~IsErr(last.err)
    /\ last.args[2] = rawOwner
    /\ RecordOf(ledger, last.args[1]).Owner = <<"uFFFD">>

\* C6: a successful DeleteAsset(id) of an Asset of color c removes the record
\* and the (c, id) index entry in the one invocation and nothing else:
\* afterwards AssetExists(id) is false and the prefix scan of the index for
\* c does not yield id.
DeleteRemovesBoth ==
    [][(last'.op = "DeleteAsset" /\ ~IsErr(last'.err)) =>
          LET id == last'.args[1]
              c == RecordOf(ledger, id).Color
              scan == ScanIds(ledger', c)
          IN  /\ id \in AssetIds(ledger)
              /\ IndexKeyOf(c, id) \in DOMAIN ledger
              /\ DOMAIN ledger' = DOMAIN ledger \ {id, IndexKeyOf(c, id)}
              /\ \A k \in DOMAIN ledger' : ledger'[k] = ledger[k]
              /\ ~AssetExists(NewContext(ledger', 0, TRUE), id).ret
              /\ \A i \in DOMAIN scan : scan[i] # id
              /\ {last'.writes[i].key : i \in DOMAIN last'.writes}
                   = {id, IndexKeyOf(c, id)}
              /\ \A i \in DOMAIN last'.writes : last'.writes[i].isDelete]_vars

\* A committed DeleteAsset after which another Asset of the same color is
\* still in the index.
DeleteRemovesBothWitness ==
    /\ last.op = "DeleteAsset"
    /\ ~IsErr(last.err)
    /\ Len(last.writes) = 2
    /\ ScanIds(ledger, SplitCompositeKey(last.writes[2].key).attrs[1]) # <<>>

\* C7: after a successful TransferAssetByColor(color, newOwner) every Asset
\* of that color has owner newOwner and its other fields as before, every
\* other Asset and every index entry is unchanged, and no key is added or
\* removed.
ByColorSetsOwner ==
    [][(last'.op = "TransferAssetByColor" /\ ~IsErr(last'.err)) =>
          /\ DOMAIN ledger' = DOMAIN ledger
          /\ \A k \in IndexKeys(ledger) : ledger'[k] = ledger[k]
          /\ \A id \in AssetIds(ledger) :
                IF RecordOf(ledger, id).Color = last'.args[1]
                THEN RecordOf(ledger', id)
                       = [RecordOf(ledger, id) EXCEPT !.Owner = last'.args[2]]
                ELSE ledger'[id] = ledger[id]]_vars

\* A committed TransferAssetByColor to an owner that is not valid UTF-8:
\* an Asset of the color holds U+FFFD in its place.
ByColorOwnerWitness ==
    /\ last.op = "TransferAssetByColor"
    /\ ~IsErr(last.err)
    /\ last.args[2] = rawOwner
    /\ \E id \in AssetIds(ledger) :
          /\ RecordOf(ledger, id).Color = last.args[1]
          /\ RecordOf(ledger, id).Owner = <<"uFFFD">>

IsGetState(c) == c.fn = "GetState"

IsPutState(c) == c.fn = "PutState"

\* The position in SeedAssets of the first one that exists in state.
FirstExisting(state) ==
    CHOOSE i \in DOMAIN SeedAssets :
        /\ SeedAssets[i].ID \in DOMAIN state
        /\ \A j \in 1..(i - 1) : SeedAssets[j].ID \notin DOMAIN state

\* C8: when one of asset1..asset6 exists and no ledger call fails,
\* InitLedger returns the Conflict naming the first existing one: it has
\* looked up asset1 up to that one in order and nothing after it, has
\* issued the two writes of each one before it, and the ledger is as it
\* was.
InitLedgerFailFast ==
    [][(/\ last'.op = "InitLedger"
        /\ NoLedgerFailure(last')
        /\ \E i \in DOMAIN SeedAssets : SeedAssets[i].ID \in DOMAIN ledger) =>
          LET n == FirstExisting(ledger)
              gets == SelectSeq(last'.calls, IsGetState)
              puts == SelectSeq(last'.calls, IsPutState)
          IN  /\ last'.err.fmt = "asset already exists: %s"
              /\ last'.err.args = <<SeedAssets[n].ID>>
              /\ gets = [i \in 1..n |->
                           [fn |-> "GetState", args |-> <<SeedAssets[i].ID>>,
                            ok |-> TRUE, out |-> <<>>]]
              /\ Len(puts) = 2 * (n - 1)
              /\ \A i \in 1..(n - 1) : puts[2 * i - 1].args[1] = SeedAssets[i].ID
              /\ ledger' = ledger]_vars

\* InitLedger on a ledger where asset1 and asset2 are gone and asset3 is
\* there: it created asset1 and asset2, met asset3 and failed.
InitLedgerFailFastWitness ==
    /\ last.op = "InitLedger"
    /\ last.err.fmt = "asset already exists: %s"
    /\ last.err.args = <<asset3>>
    /\ Len(last.writes) = 4
    /\ asset1 \notin DOMAIN ledger

\* C9: a session of GetAssetsByRangeWithPagination calls on an unchanging
\* ledger, opened with the empty bookmark, each returned bookmark fed into
\* the next call, has, when the ledger returns the empty bookmark, collected
\* exactly the sequence of Assets one GetAssetsByRange call returns for the
\* same bounds.
PaginationLaw ==
    (pg.kind = "range" /\ pg.first = <<>> /\ pg.done /\ ~pg.failed) =>
        LET g == GetAssetsByRange(Committed, pg.startKey, pg.endKey)
        IN  /\ ~IsErr(g.err)
            /\ pg.acc = g.ret

\* A finished session of three pages or more over five records or more.
PaginationLawWitness ==
    /\ pg.kind = "range"
    /\ pg.first = <<>>
    /\ pg.done
    /\ ~pg.failed
    /\ pg.pages >= 3
    /\ Len(pg.acc) >= 5

PagedCalls == {"GetStateByRangeWithPagination", "GetQueryResultWithPagination"}

\* C10: GetAssetsByRangeWithPagination and QueryAssetsWithPagination make
\* one paginated ledger call, their first call, whose bookmark argument is
\* the caller's bookmark; the bookmark and fetchedRecordsCount they return
\* are those of the metadata that call returned.
BookmarkRoundTrip ==
    last.op \in {"GetAssetsByRangeWithPagination", "QueryAssetsWithPagination"} =>
        /\ {i \in DOMAIN last.calls : last.calls[i].fn \in PagedCalls} = {1}
        /\ last.calls[1].fn
             = IF last.op = "GetAssetsByRangeWithPagination"
               THEN "GetStateByRangeWithPagination"
               ELSE "GetQueryResultWithPagination"
        /\ last.calls[1].args[Len(last.calls[1].args)] = last.args[Len(last.args)]
        /\ ~IsErr(last.err) =>
              /\ last.ret.Bookmark = last.calls[1].out.Bookmark
              /\ last.ret.FetchedRecordsCount
                   = last.calls[1].out.FetchedRecordsCount

\* A continued page of a structured query: the caller's bookmark went in
\* and another one came back with the records fetched.
BookmarkRoundTripWitness ==
    /\ last.op = "QueryAssetsWithPagination"
    /\ ~IsErr(last.err)
    /\ last.args[3] # <<>>
    /\ last.ret.Bookmark \notin {<<>>, last.args[3]}
    /\ last.ret.FetchedRecordsCount = 2

\* The ids of the Assets whose key k has startKey <= k, and k < endKey when
\* bounded is TRUE or endKey is not empty.
IdsInRange(state, startKey, endKey, bounded) ==
    {k \in AssetIds(state) :
        /\ StrLeq(startKey, k)
        /\ (bounded \/ endKey # <<>>) => StrLess(k, endKey)}

\* ret holds exactly the Assets of ids, one per id, in ascending key order.
ExactlyInOrder(ret, state, ids) ==
    /\ Len(ret) = Cardinality(ids)
    /\ {ret[i].ID : i \in DOMAIN ret} = ids
    /\ \A i \in DOMAIN ret : ret[i] = RecordOf(state, ret[i].ID)
    /\ \A i, j \in DOMAIN ret : i < j => StrLess(ret[i].ID, ret[j].ID)

NamesTheKey(inv) ==
    \/ /\ inv.err.args # <<>>
       /\ \A i \in DOMAIN inv.err.args :
              \/ \E j \in DOMAIN inv.args : inv.err.args[i] = inv.args[j]
              \/ \E c \in DOMAIN inv.calls :
                     \E a \in DOMAIN inv.calls[c].args :
                         inv.err.args[i] = inv.calls[c].args[a]
    \/ inv.err.cause = "failed to read asset %s from world state. %v"

\* C17: every error a public operation returns to the host is wrapped with
\* the offending key or identifier (the asset id, the range bounds, the
\* query string or the color), on every failure path.
ErrorsNameTheKey == IsErr(last.err) => NamesTheKey(last)

\* An error that does name the key: the conflict of a Create on an existing
\* id.
ErrorsNameTheKeyWitness ==
    /\ last.op = "CreateAsset"
    /\ last.err.fmt = "asset already exists: %s"
    /\ last.err.args = <<last.args[1]>>

StructuredQueries ==
    {"QueryAssetsByOwner", "QueryAssets", "QueryAssetsWithPagination"}

\* C16: on a ledger that does not support structured queries,
\* QueryAssetsByOwner, QueryAssets and QueryAssetsWithPagination each return
\* the ledger's refusal as an error after that one call, whatever the
\* ledger holds, and never a successful (empty or other) result.
QueryUnsupported ==
    (last.op \in StructuredQueries /\ ~chain.rich) =>
        /\ IsErr(last.err)
        /\ last.ret \in {<<>>, NoResult}
        /\ last.err.fmt = "ExecuteQuery not supported for leveldb"
        /\ Len(last.calls) = 1

\* A query for the Assets of an owner who has one is refused on a ledger
\* without structured queries.
QueryUnsupportedWitness ==
    /\ last.op = "QueryAssetsByOwner"
    /\ ~chain.rich
    /\ last.failAt = 0
    /\ last.args[1] = Tomoko
    /\ \E id \in AssetIds(ledger) : RecordOf(ledger, id).Owner = Tomoko
    /\ IsErr(last.err)

\* The ledger calls that open an iterator.
Opens ==
    {"GetStateByRange", "GetStateByPartialCompositeKey",
     "GetStateByRangeWithPagination", "GetQueryResult",
     "GetQueryResultWithPagination", "GetHistoryForKey"}

\* The positions in the calls of an invocation at which an iterator was
\* opened, tried and refused, and released.
OpenedAt(inv) == {i \in DOMAIN inv.calls : inv.calls[i].fn \in Opens /\ inv.calls[i].ok}
RefusedAt(inv) == {i \in DOMAIN inv.calls : inv.calls[i].fn \in Opens /\ ~inv.calls[i].ok}
ReleasedAt(inv) == {i \in DOMAIN inv.calls : inv.calls[i].fn = "Close"}

\* C11: every operation that opens a ledger iterator releases it exactly
\* once on every exit path, as the last ledger call of the invocation and
\* whether the operation succeeds or fails in its loop, and releases nothing
\* when the iterator failed to open.
IteratorsReleased ==
    /\ Cardinality(ReleasedAt(last)) = Cardinality(OpenedAt(last))
    /\ Cardinality(OpenedAt(last)) <= 1
    /\ OpenedAt(last) # {} => ReleasedAt(last) = {Len(last.calls)}
    /\ RefusedAt(last) # {} => ReleasedAt(last) = {}
    /\ \A i \in DOMAIN last.calls :
           last.calls[i].fn = "Next" => \E o \in OpenedAt(last) : o < i

\* TransferAssetByColor fails at the write of the second Asset of its loop
\* and has released its iterator.
IteratorsReleasedWitness ==
    /\ last.op = "TransferAssetByColor"
    /\ IsErr(last.err)
    /\ last.failAt = 7
    /\ last.calls[7].fn = "PutState"
    /\ ReleasedAt(last) = {8}

\* GetAssetHistory fails at a history entry it cannot deserialize and has
\* released its iterator.
HistoryReleasedWitness ==
    /\ last.op = "GetAssetHistory"
    /\ last.err.fmt = "invalid character"
    /\ ReleasedAt(last) = {Len(last.calls)}

\* C18: no error is swallowed and nothing is retried: whenever a ledger call
\* of an operation reports a failure (get, put, delete, iterator open, next
\* or release) the operation returns an error, makes no ledger write after
\* the failure and does not issue the failed call again.
ErrorsPropagate ==
    \A i \in DOMAIN last.calls :
        ~last.calls[i].ok =>
            /\ IsErr(last.err)
            /\ \A j \in DOMAIN last.calls :
                   j > i => /\ last.calls[j].fn \notin {"PutState", "DelState"}
                            /\ <<last.calls[j].fn, last.calls[j].args>> #
                                   <<last.calls[i].fn, last.calls[i].args>>

\* A failure that is propagated: the delete of the record fails in
\* DeleteAsset, which returns an error and leaves the index entry alone.
ErrorsPropagateWitness ==
    /\ last.op = "DeleteAsset"
    /\ last.failAt = 2
    /\ Len(last.calls) = 2
    /\ last.calls[2].fn = "DelState"
    /\ ~last.calls[2].ok
    /\ IsErr(last.err)

\* The records of a history in commit order.
InCommitOrder(ch, records) ==
    IF ch.newestFirst
    THEN [i \in DOMAIN records |-> records[Len(records) + 1 - i]]
    ELSE records

\* The record of a history entry of key id: the Asset its value encodes, or
\* the id alone for an entry without a value, with the entry's transaction
\* id, time and delete flag.
RecordOfEntry(id, e) ==
    HistoryQueryResult(IF e.Value = Nil THEN [ZeroAsset EXCEPT !.ID = id]
                       ELSE JsonUnmarshal(e.Value).asset,
                       e.TxId, e.Timestamp.Seconds, e.IsDelete)

\* The transactions committed are CreateAsset(id, ...), TransferAsset(id, o2)
\* and DeleteAsset(id), in that order.
CreatedTransferredDeleted(ch, id) ==
    /\ Len(ch.txs) = 3
    /\ ch.txs[1].op = "CreateAsset" /\ ch.txs[1].args[1] = id
    /\ ch.txs[2].op = "TransferAsset" /\ ch.txs[2].args[1] = id
    /\ ch.txs[3].op = "DeleteAsset" /\ ch.txs[3].args[1] = id

\* The three records of the custody of an Asset that was created,
\* transferred and deleted by the transactions txs.
CustodyRecords(txs, h) ==
    /\ Len(h) = 3
    /\ h[1].Record = NewAsset(txs[1].args[1], txs[1].args[2], txs[1].args[3],
                              txs[1].args[4], txs[1].args[5])
    /\ h[2].Record = [h[1].Record EXCEPT !.Owner = txs[2].args[2]]
    /\ h[3].Record = [ZeroAsset EXCEPT !.ID = txs[1].args[1]]
    /\ <<h[1].IsDelete, h[2].IsDelete, h[3].IsDelete>> = <<FALSE, FALSE, TRUE>>
    /\ <<h[1].TxId, h[2].TxId, h[3].TxId>> = <<1, 2, 3>>

\* C12: GetAssetHistory(id) returns one record per history entry of id, in
\* the order of the iterator and not re-sorted, with the transaction id and
\* the delete flag of the entry; after CreateAsset(id, ...),
\* TransferAsset(id, o2) and DeleteAsset(id) these are three records: the
\* Asset as created with its original owner, the Asset with owner o2, both
\* with isDelete false, and a delete entry with isDelete true and no Asset
\* data beyond the id.
HistoryOfCustody ==
    (last.op = "GetAssetHistory" /\ ~IsErr(last.err)) =>
        /\ Len(last.ret) = Len(HistoryOf(chain, last.args[1]))
        /\ \A i \in DOMAIN last.ret :
               last.ret[i] =
                   RecordOfEntry(last.args[1], HistoryOf(chain, last.args[1])[i])
        /\ CreatedTransferredDeleted(chain, last.args[1]) =>
               CustodyRecords(chain.txs, InCommitOrder(chain, last.ret))

\* The history of an Asset created by Tomoko, transferred to Alice and
\* deleted is read on a host whose iterator runs newest first.
HistoryOfCustodyWitness ==
    /\ last.op = "GetAssetHistory"
    /\ ~IsErr(last.err)
    /\ chain.newestFirst
    /\ CreatedTransferredDeleted(chain, last.args[1])
    /\ chain.txs[1].args[4] = Tomoko
    /\ chain.txs[2].args[2] = Alice
    /\ Len(last.ret) = 3
    /\ last.ret[1].IsDelete

\* The calls of an invocation hold no compensating write: no key is deleted
\* or written again after the invocation has written it.
NoCompensation(inv) ==
    \A i, j \in DOMAIN inv.calls :
        (/\ i < j
         /\ inv.calls[i].fn = "PutState"
         /\ inv.calls[j].fn \in {"PutState", "DelState"}) =>
            inv.calls[i].args[1] # inv.calls[j].args[1]

\* C13: failure is all-or-nothing: whenever an invocation returns an error
\* none of its writes reach the committed ledger, which is as it was before
\* the invocation, also when CreateAsset fails at the index key or the
\* index write after it wrote the record and when TransferAssetByColor or
\* InitLedger fails partway; and the invocation has issued no compensating
\* write or delete.
AllOrNothing ==
    [][IsErr(last'.err) =>
          /\ ledger' = ledger
          /\ chain' = chain
          /\ NoCompensation(last')]_vars

\* CreateAsset has written the record, failed at the index write and left
\* no record behind.
AllOrNothingWitness ==
    /\ last.op = "CreateAsset"
    /\ last.failAt = 3
    /\ IsErr(last.err)
    /\ Len(last.writes) = 1
    /\ last.writes[1].key = last.args[1]
    /\ last.args[1] \notin DOMAIN ledger

\* The step commits a transaction of operation op.
Commits(op) ==
    /\ chain'.done # chain.done
    /\ chain'.done.valid
    /\ chain'.done.op = op

\* Every index entry of a state is the (color, id) entry of a record of that
\* color, and every record has its entry.
IndexAgrees(state) ==
    /\ \A k \in IndexKeys(state) :
           /\ SplitCompositeKey(k).attrs[2] \in AssetIds(state)
           /\ RecordOf(state, SplitCompositeKey(k).attrs[2]).Color =
                  SplitCompositeKey(k).attrs[1]
    /\ \A id \in AssetIds(state) :
           IndexKeyOf(RecordOf(state, id).Color, id) \in DOMAIN state

\* C14: of two concurrent CreateAsset for the same id, endorsed on a state
\* where the id is absent, at most one commits: a CreateAsset commits only
\* while its id is still absent, its record and its index entry are then
\* written by that one transaction, and no committed state has an index
\* entry for a color its record does not have.
ConcurrentCreate ==
    [][/\ IndexAgrees(ledger')
       /\ Commits("CreateAsset") =>
              /\ chain'.done.args[1] \notin DOMAIN ledger
              /\ RecordOf(ledger', chain'.done.args[1]).Color = chain'.done.args[2]
              /\ Version(ledger', chain', chain'.done.args[1]) = chain'.height
              /\ Version(ledger', chain',
                         IndexKeyOf(chain'.done.args[2], chain'.done.args[1])) =
                     chain'.height]_vars

\* A CreateAsset endorsed on the empty ledger is discarded after another
\* CreateAsset for the same id and another color, endorsed on the empty
\* ledger too, has committed.
ConcurrentCreateWitness ==
    /\ chain.done # <<>>
    /\ chain.height = 1
    /\ chain.txs[1].op = "CreateAsset"
    /\ chain.done.op = "CreateAsset"
    /\ ~chain.done.valid
    /\ chain.done.at = 0
    /\ chain.done.args[1] = chain.txs[1].args[1]
    /\ chain.done.args[2] # chain.txs[1].args[2]

\* No transaction committed after transaction at has written the key.
Untouched(ch, key, at) ==
    key \in DOMAIN ch.history =>
        \A i \in DOMAIN ch.history[key] : ch.history[key][i].TxId <= at

\* C19: of a TransferAsset or TransferAssetByColor and a DeleteAsset that
\* touch the same Asset and were endorsed on the same state, at most one
\* commits: a transfer or a delete of an Asset commits only while the Asset
\* is present and unwritten since the state the transaction was endorsed
\* on, and TransferAssetByColor only while every Asset of the color is; and
\* no committed state has a record without its index entry or an index
\* entry without its record.
ConcurrentTransferDelete ==
    [][/\ IndexAgrees(ledger')
       /\ (Commits("TransferAsset") \/ Commits("DeleteAsset")) =>
              /\ chain'.done.args[1] \in DOMAIN ledger
              /\ Untouched(chain, chain'.done.args[1], chain'.done.at)
       /\ Commits("TransferAssetByColor") =>
              \A i \in DOMAIN ScanIds(ledger, chain'.done.args[1]) :
                  /\ ScanIds(ledger, chain'.done.args[1])[i] \in DOMAIN ledger
                  /\ Untouched(chain, ScanIds(ledger, chain'.done.args[1])[i],
                               chain'.done.at)]_vars

\* A TransferAsset is discarded after a DeleteAsset of the same Asset,
\* endorsed on the same state, has committed.
ConcurrentTransferDeleteWitness ==
    /\ chain.done # <<>>
    /\ chain.height = 2
    /\ chain.txs[2].op = "DeleteAsset"
    /\ chain.done.op = "TransferAsset"
    /\ ~chain.done.valid
    /\ chain.done.at = 1
    /\ chain.done.args[1] = chain.txs[2].args[1]

\* A DeleteAsset is discarded after a TransferAssetByColor that transferred
\* the Asset, endorsed on the same state, has committed.
ConcurrentDeleteTransferWitness ==
    /\ chain.done # <<>>
    /\ chain.height = 2
    /\ chain.txs[2].op = "TransferAssetByColor"
    /\ chain.done.op = "DeleteAsset"
    /\ ~chain.done.valid
    /\ chain.done.at = 1
    /\ chain.done.args[1] \in DOMAIN ledger

\* The key was present after transaction at and before the next one: it has
\* a write, and no delete after it, among the transactions up to at.
PresentAt(ch, key, at) ==
    \E i \in DOMAIN ch.history[key] :
        /\ ch.history[key][i].TxId <= at
        /\ ~ch.history[key][i].IsDelete
        /\ \A j \in DOMAIN ch.history[key] :
               j > i => ch.history[key][j].TxId > at

\* The index entries of a color on the state after transaction at.
IndexKeysAt(ch, color, at) ==
    {k \in DOMAIN ch.history :
        /\ IsIndexKey(k)
        /\ SplitCompositeKey(k).attrs[1] = color
        /\ PresentAt(ch, k, at)}

\* C20: a TransferAssetByColor whose color has another set of index entries
\* at commit than on the state it was endorsed on is invalidated: it
\* commits only if the two sets are equal; hence right after a committed
\* TransferAssetByColor(color, newOwner) every Asset of that color has
\* owner newOwner.
ByColorSeesEveryAsset ==
    [][Commits("TransferAssetByColor") =>
          /\ IndexKeysAt(chain, chain'.done.args[1], chain'.done.at) =
                 IndexKeysAt(chain, chain'.done.args[1], chain.height)
          /\ \A id \in AssetIds(ledger') :
                 RecordOf(ledger', id).Color = chain'.done.args[1] =>
                     RecordOf(ledger', id).Owner = chain'.done.args[2]]_vars

\* A TransferAssetByColor endorsed when one Asset had the color is discarded
\* after the CreateAsset of another Asset of the color has committed.
ByColorSeesEveryAssetWitness ==
    /\ chain.done # <<>>
    /\ chain.height = 2
    /\ chain.txs[2].op = "CreateAsset"
    /\ chain.done.op = "TransferAssetByColor"
    /\ ~chain.done.valid
    /\ chain.done.at = 1
    /\ chain.done.args[1] = chain.txs[2].args[2]
    /\ chain.done.args[1] = chain.txs[1].args[2]

ReadOnlyOperations ==
    {"ReadAsset", "AssetExists", "GetAssetsByRange", "QueryAssets",
     "QueryAssetsByOwner", "GetAssetsByRangeWithPagination",
     "QueryAssetsWithPagination", "GetAssetHistory"}

\* C28: the read-only operations (ReadAsset, AssetExists, GetAssetsByRange,
\* QueryAssets, QueryAssetsByOwner, GetAssetsByRangeWithPagination,
\* QueryAssetsWithPagination and GetAssetHistory) issue no put and no delete
\* on any path, successful or failing, so that the ledger, its index and
\* the history of every key are unchanged by them.
ReadOnlyNeverWrites ==
    [][last'.op \in ReadOnlyOperations =>
          /\ \A i \in DOMAIN last'.calls :
                 last'.calls[i].fn \notin {"PutState", "DelState"}
          /\ last'.writes = <<>>
          /\ ledger' = ledger
          /\ chain' = chain]_vars

\* ReadAsset has returned a record of a ledger that holds index entries.
ReadOnlyNeverWritesWitness ==
    /\ last.op = "ReadAsset"
    /\ ~IsErr(last.err)
    /\ last.ret.ID = last.args[1]
    /\ IndexKeys(ledger) # {}

\* The ledger calls of a DeleteAsset(id) on the state it ran against: the
\* read of id first; a delete of id second, only after a read that found a
\* record; a delete of the index entry of (color of the record read, id)
\* third, only after the delete of the record; and nothing else.
DeleteCallsInOrder(state, id, calls) ==
    /\ Len(calls) \in 1..3
    /\ calls[1].fn = "GetState"
    /\ calls[1].args = <<id>>
    /\ Len(calls) >= 2 =>
          /\ calls[1].ok
          /\ id \in DOMAIN state
          /\ calls[2].fn = "DelState"
          /\ calls[2].args = <<id>>
    /\ Len(calls) = 3 =>
          /\ calls[2].ok
          /\ calls[3].fn = "DelState"
          /\ calls[3].args = <<IndexKeyOf(RecordOf(state, id).Color, id)>>

\* C25: within one DeleteAsset(id) the ledger calls are the read of the
\* record under id, then the delete of the record key, then the delete of
\* the index key; the index key deleted is built from the color of the
\* record that was read, and neither delete is issued unless the read
\* succeeded.
DeleteReadsThenDeletes ==
    [][last'.op = "DeleteAsset" =>
          DeleteCallsInOrder(ledger, last'.args[1], last'.calls)]_vars

\* A red Asset has been deleted with its three ledger calls while a blue
\* one stays.
DeleteReadsThenDeletesWitness ==
    /\ last.op = "DeleteAsset"
    /\ ~IsErr(last.err)
    /\ Len(last.calls) = 3
    /\ last.calls[3].args = <<IndexKeyOf(red, last.args[1])>>
    /\ \E k \in AssetIds(ledger) : RecordOf(ledger, k).Color = blue

\* C26: for every pageSize of the 64-bit platform integer type,
\* GetAssetsByRangeWithPagination and QueryAssetsWithPagination request from
\* the ledger a page size equal to the caller's pageSize: the conversion to
\* the 32-bit page size of the ledger call turns no pageSize into a
\* different (wrapped, negative or zero) one.
PageSizeAsRequested ==
    (/\ last.op \in {"GetAssetsByRangeWithPagination", "QueryAssetsWithPagination"}
     /\ last.calls # <<>>) =>
        /\ last.args[Len(last.args) - 1].q = 0
        /\ last.calls[1].args[Len(last.calls[1].args) - 1]
             = last.args[Len(last.args) - 1].r

\* A caller asked for pages of 2^32 + 1 records of a ledger with several
\* Assets in the range; the ledger was asked for pages of one record and
\* the call returned one record and a bookmark.
PageSizeAsRequestedWitness ==
    /\ last.op = "GetAssetsByRangeWithPagination"
    /\ ~IsErr(last.err)
    /\ last.args[3] = GoInt(2, 1)
    /\ last.calls[1].args[3] = 1
    /\ Len(last.ret.Records) = 1
    /\ last.ret.Bookmark # <<>>

\* Every record of the plain keyspace carries its key as ID and the
\* discriminator "asset".
RecordsWellFormed(state) ==
    \A k \in AssetIds(state) :
        /\ RecordOf(state, k).ID = k
        /\ RecordOf(state, k).DocType = assetDocType

\* The identity of a record: every field but the owner.
Identity(asset) ==
    <<asset.DocType, asset.ID, asset.Color, asset.Size, asset.AppraisedValue>>

\* C27: in every committed state reachable from the empty ledger through
\* the exposed operations every record stored under a primary key k has
\* ID = k and docType "asset", and as long as the record under k is not
\* deleted its ID, color, size and appraisedValue do not change (only the
\* owner can).  The ledger starts empty, so it is enough that every step
\* that changes the ledger leaves it well-formed.
RecordsKeepIdentity ==
    [][ledger' # ledger =>
          /\ RecordsWellFormed(ledger')
          /\ \A k \in AssetIds(ledger) \cap AssetIds(ledger') :
                 \/ ledger'[k] = ledger[k]
                 \/ Identity(RecordOf(ledger', k)) = Identity(RecordOf(ledger, k))]_vars

\* A transfer has changed the owner of a red Asset of size 10 and left the
\* rest of the record.
RecordsKeepIdentityWitness ==
    /\ last.op \in {"TransferAsset", "TransferAssetByColor"}
    /\ ~IsErr(last.err)
    /\ \E k \in AssetIds(ledger) :
          /\ RecordOf(ledger, k).Owner = Alice
          /\ RecordOf(ledger, k).Color = red
          /\ RecordOf(ledger, k).Size = 10

\* The record that has the id only.
Placeholder(id) == [ZeroAsset EXCEPT !.ID = id]

\* The history entries of id that are no deletes and hold a value that does
\* not deserialize, by position in the order the host iterates.
CorruptEntries(ch, id) ==
    {i \in DOMAIN HistoryOf(ch, id) :
        /\ ~HistoryOf(ch, id)[i].IsDelete
        /\ IsErr(JsonUnmarshal(HistoryOf(ch, id)[i].Value).err)}

\* C23: GetAssetHistory(id) substitutes the placeholder record (only ID = id
\* set) for exactly the history entries that are deletes; every other entry
\* yields the deserialized stored value, or, if that value is corrupt, makes
\* the whole call fail with the deserialization error.  No entry that is not
\* a delete is returned with the placeholder and no delete is deserialized.
PlaceholderForDeletes ==
    (/\ last.op = "GetAssetHistory"
     /\ NoLedgerFailure(last)) =>
        LET id == last.args[1]
            h == HistoryOf(chain, id)
        IN  IF CorruptEntries(chain, id) # {}
            THEN /\ IsErr(last.err)
                 /\ \E i \in CorruptEntries(chain, id) :
                        last.err = JsonUnmarshal(h[i].Value).err
                 /\ last.err.fmt # "asset %s does not exist"
            ELSE /\ ~IsErr(last.err)
                 /\ Len(last.ret) = Len(h)
                 /\ \A i \in DOMAIN h :
                        /\ last.ret[i].IsDelete = h[i].IsDelete
                        /\ h[i].IsDelete =>
                              last.ret[i].Record = Placeholder(id)
                        /\ ~h[i].IsDelete =>
                              /\ last.ret[i].Record = JsonUnmarshal(h[i].Value).asset
                              /\ last.ret[i].Record # Placeholder(id)

\* The history of an Asset that was created and deleted has been returned:
\* the record of the create and the placeholder for the delete.
PlaceholderForDeletesWitness ==
    /\ last.op = "GetAssetHistory"
    /\ ~IsErr(last.err)
    /\ Len(last.ret) = 2
    /\ \E i, j \in 1..2 :
          /\ last.ret[i].IsDelete
          /\ last.ret[i].Record = Placeholder(last.args[1])
          /\ ~last.ret[j].IsDelete
          /\ last.ret[j].Record.Owner = Tomoko

\* The history of an index key, whose entries hold a value that is no JSON,
\* has failed with the deserialization error after a delete entry was
\* passed.
PlaceholderCorruptWitness ==
    /\ last.op = "GetAssetHistory"
    /\ last.args[1] = indexKeyId
    /\ NoLedgerFailure(last)
    /\ IsErr(last.err)
    /\ Len(HistoryOf(chain, indexKeyId)) = 2
    /\ HistoryOf(chain, indexKeyId)[1].IsDelete

\* The records whose docType is "asset" and whose owner is owner, in key
\* order.
OwnedBy(state, owner) ==
    LET ks == SortKeys({k \in AssetIds(state) :
                          /\ RecordOf(state, k).DocType = assetDocType
                          /\ RecordOf(state, k).Owner = owner})
    IN  [i \in DOMAIN ks |-> RecordOf(state, ks[i])]

\* C21: for every owner string, also one that holds double quotes, the
\* structured query QueryAssetsByOwner(owner) sends to the ledger selects
\* exactly the records with docType "asset" and that owner: the owner value
\* adds, removes or alters no predicate of the selector, and two different
\* owner values never produce the same selector.
OwnerSelectorExact ==
    /\ (/\ last.op = "QueryAssetsByOwner"
        /\ ~IsErr(last.err)) =>
           /\ last.calls[1].fn = "GetQueryResult"
           /\ ParseSelector(last.calls[1].args[1]).conds
                = <<[name |-> NameChars("docType"), value |-> assetDocType],
                    [name |-> NameChars("owner"), value |-> last.args[1]]>>
           /\ last.ret = OwnedBy(ledger, last.args[1])
    /\ \A o1, o2 \in HistoryOwners \cup {Tomoko, quotedOwner} :
           ownerQueryString(o1) = ownerQueryString(o2) => o1 = o2

\* QueryAssetsByOwner for the owner Tomoko","color":"blue, whom no record
\* names, has sent a selector of three predicates and returned a blue Asset
\* of Tomoko.
OwnerSelectorExactWitness ==
    /\ last.op = "QueryAssetsByOwner"
    /\ last.args[1] = quotedOwner
    /\ ~IsErr(last.err)
    /\ Len(ParseSelector(last.calls[1].args[1]).conds) = 3
    /\ last.ret # <<>>
    /\ last.ret[1].Owner = Tomoko

\* The ids of the records of state whose color is exactly color, ascending.
IdsOfColor(state, color) ==
    SortKeys({k \in AssetIds(state) : RecordOf(state, k).Color = color})

\* The ids an invocation has read, in the order of the reads.
IdsRead(calls) ==
    LET reads == SelectSeq(calls, IsGetState)
    IN  [i \in DOMAIN reads |-> reads[i].args[1]]

\* C24: for colors and ids without the delimiter the index key built from
\* ("color~name", color, id) parses back to exactly (color, id), two
\* different (color, id) pairs never produce the same key, and the prefix
\* scan of TransferAssetByColor for a color yields exactly the ids of the
\* Assets of exactly that color (not those of a color it is a prefix of), in
\* ascending order of id.
IndexKeyCodec ==
    [][/\ (last'.op = "CreateAsset" /\ ~IsErr(last'.err)) =>
              /\ Len(last'.writes) = 2
              /\ SplitCompositeKey(last'.writes[2].key).objectType = index
              /\ SplitCompositeKey(last'.writes[2].key).attrs
                   = <<last'.args[2], last'.args[1]>>
              /\ \A c \in CodecColors, i \in CodecIds :
                     IndexKeyOf(c, i) = last'.writes[2].key =>
                         c = last'.args[2] /\ i = last'.args[1]
       /\ (last'.op = "TransferAssetByColor" /\ ~IsErr(last'.err)) =>
              IdsRead(last'.calls) = IdsOfColor(ledger, last'.args[1])]_vars

\* The Assets of color b have been transferred while the ledger holds an
\* Asset of color blue and one of the empty color, which keep their owner.
IndexKeyCodecWitness ==
    /\ last.op = "TransferAssetByColor"
    /\ ~IsErr(last.err)
    /\ last.args[1] = <<"b">>
    /\ IdsRead(last.calls) = <<asset2>>
    /\ asset1 \in AssetIds(ledger)
    /\ RecordOf(ledger, asset1).Color = blue
    /\ RecordOf(ledger, asset1).Owner = Tomoko
    /\ blue \in AssetIds(ledger)
    /\ RecordOf(ledger, blue).Color = <<>>
    /\ RecordOf(ledger, blue).Owner = Tomoko

\* A stored value is the encoding of an Asset: decoding it and encoding the
\* result gives the value back.
EncodesAsset(value) ==
    /\ value.kind = "object"
    /\ ~IsErr(JsonUnmarshal(value).err)
    /\ JsonMarshal(JsonUnmarshal(value).asset) = value

\* C22: ReadAsset(id) on a key whose stored bytes do not decode to the Asset
\* schema (corrupt bytes, or well-formed data of another shape: an empty
\* object, a null, a record with missing fields) fails with a
\* deserialization error that is not the NotFound one, and never returns
\* an Asset whose fields were defaulted or coerced; the same holds for each
\* value a range query or a structured query meets.
StoredBytesDecodeOrFail ==
    /\ (/\ last.op = "ReadAsset"
        /\ NoLedgerFailure(last)
        /\ last.args[1] \in DOMAIN ledger
        /\ ~EncodesAsset(ledger[last.args[1]])) =>
           /\ IsErr(last.err)
           /\ last.err.fmt # "asset %s does not exist"
    /\ (/\ last.op \in {"GetAssetsByRange", "QueryAssets"}
        /\ ~IsErr(last.err)) =>
           \A i \in DOMAIN last.ret :
               \E k \in DOMAIN ledger : ledger[k] = JsonMarshal(last.ret[i])

\* ReadAsset of a key that holds the empty object has returned an Asset
\* with every field at its zero value.
StoredBytesDecodeOrFailWitness ==
    /\ last.op = "ReadAsset"
    /\ ~IsErr(last.err)
    /\ ledger[last.args[1]] = JsonObject(<<>>)
    /\ last.ret = ZeroAsset

\* ReadAsset of a key that holds bytes that are no JSON has failed with the
\* deserialization error.
StoredBytesCorruptWitness ==
    /\ last.op = "ReadAsset"
    /\ NoLedgerFailure(last)
    /\ ledger[last.args[1]] = RawBytes(<<"{">>)
    /\ last.err.fmt = "invalid character"

====
